---- MODULE Spec2Model ----
(***************************************************************************)
(* A model of steamcmd-wrapper.py: the name sanitizer, the settings store, *)
(* the workshop scraper, the download orchestrator (run on a worker        *)
(* thread) and the progress poller of the GUI thread.                      *)
(*                                                                         *)
(* Text is modelled as a sequence of characters.  A character is a string: *)
(* an ASCII character stands for itself ("a", " ", "/"), any other code    *)
(* point is written as its name ("U+00E9").                                *)
(***************************************************************************)
EXTENDS Integers, Sequences, FiniteSets, TLC

VARIABLES
    \* sanitize_filename, called on its own
    name,           \* the argument of the call
    sanitized,      \* the value returned, NotReturned before the call
    \* scrape_mod_details, called on its own
    source_type,    \* the argument source_type
    source,         \* the argument source and what the network would serve
    scraped,        \* what the call did: [ret, raised, reports, requests]
    \* the settings store
    settings_file,  \* SETTINGS_FILE on disk: [kind, json]
    app_settings,   \* the global app_settings: a dict, as a sequence of entries
    raised,         \* the exception the last settings call let escape, or "none"
    settings_dict,  \* save_settings called on its own: its argument
    \* the GUI thread
    mod_vars,       \* the loaded mods: a sequence of [var, id, name]
    widgets,        \* the state of load_button, settings_button, download_button
    progress_window,\* "none", "guarded" (closing refused), "closable", "destroyed"
    display,        \* what the progress window shows: [status, current_mod, overall_value]
    \* the download runs: one record per worker thread and its queue and poller
    runs,
    launched,       \* how many worker threads have been started
    \* the environment
    fs,             \* each destination directory: [entries, temp]
    env,            \* the installed tool: [files, on_path]
    \* which part of the program the behaviour exercises
    component

sanVars == <<name, sanitized>>
scrVars == <<source_type, source, scraped>>
setVars == <<settings_file, app_settings, raised, settings_dict>>
guiVars == <<mod_vars, widgets, progress_window, display>>
appVars == <<guiVars, runs, launched, fs, env>>
vars == <<sanVars, scrVars, setVars, appVars, component>>

NotReturned == <<"<not returned>">>
\* scraped before the call: nothing returned, raised or reported
NotScraped ==
    [ret |-> <<>>, raised |-> "not called", reports |-> <<>>, requests |-> 0]

----------------------------------------------------------------------------
(* Text helpers: what the Python str methods used by the program do.       *)

Lower == <<"a","b","c","d","e","f","g","h","i","j","k","l","m",
           "n","o","p","q","r","s","t","u","v","w","x","y","z">>
UpperLetters == <<"A","B","C","D","E","F","G","H","I","J","K","L","M",
                  "N","O","P","Q","R","S","T","U","V","W","X","Y","Z">>
Digits == {"0","1","2","3","4","5","6","7","8","9"}

\* str.upper() on one ASCII character
UpperChar(c) ==
    IF \E i \in 1..26 : Lower[i] = c
    THEN UpperLetters[CHOOSE i \in 1..26 : Lower[i] = c]
    ELSE c

\* str.upper()
upper(s) == [i \in 1..Len(s) |-> UpperChar(s[i])]

\* str.lstrip(chars)
lstrip(s, chars) ==
    LET keep == {i \in 1..Len(s) : s[i] \notin chars}
    IN  IF keep = {} THEN <<>>
        ELSE SubSeq(s, CHOOSE i \in keep : \A j \in keep : i <= j, Len(s))

\* str.rstrip(chars)
rstrip(s, chars) ==
    LET keep == {i \in 1..Len(s) : s[i] \notin chars}
    IN  IF keep = {} THEN <<>>
        ELSE SubSeq(s, 1, CHOOSE i \in keep : \A j \in keep : i >= j)

\* str.strip(chars)
strip(s, chars) == rstrip(lstrip(s, chars), chars)

\* str.startswith(prefix)
startswith(s, prefix) ==
    Len(s) >= Len(prefix) /\ SubSeq(s, 1, Len(prefix)) = prefix

\* s[:n]
Slice(s, n) == SubSeq(s, 1, IF Len(s) < n THEN Len(s) ELSE n)

RECURSIVE Concat(_)
\* "".join(parts), by halves
Concat(parts) ==
    IF parts = <<>> THEN <<>>
    ELSE IF Len(parts) = 1 THEN parts[1]
    ELSE LET h == Len(parts) \div 2
         IN  Concat(SubSeq(parts, 1, h)) \o Concat(SubSeq(parts, h + 1, Len(parts)))

----------------------------------------------------------------------------
(* sanitize_filename                                                       *)

UnnamedMod == <<"U","n","n","a","m","e","d"," ","M","o","d">>
ModSuffix == <<"_","m","o","d">>

\* unicodedata.normalize('NFKD', c).encode('ascii', 'ignore').decode('ascii')
\* of one character: the ASCII part of its compatibility decomposition.
AsciiFold(c) ==
    CASE c = "U+00E9" -> <<"e">>            \* e-acute: e + combining accent
      [] c = "U+65E5" -> <<>>               \* a CJK ideograph: nothing left
      [] c = "U+2026" -> <<".", ".", ".">>  \* horizontal ellipsis
      [] c = "U+FF0F" -> <<"/">>            \* fullwidth solidus
      [] c = "U+00A0" -> <<" ">>            \* no-break space
      [] OTHER -> <<c>>

\* line 52
NormalizeToAscii(s) == Concat([i \in 1..Len(s) |-> AsciiFold(s[i])])

\* the character class of line 59; "U+000B" is \v
InvalidPathChars ==
    {"\\", "/", ":", "*", "?", "\"", "<", ">", "|", "\t", "\n", "\r", "\f", "U+000B"}

\* ASCII characters whose unicodedata.category starts with "C"
ControlChars ==
    {"U+0000", "U+0001", "U+001B", "U+007F", "\t", "\n", "\r", "\f", "U+000B"}

\* line 59: re.sub(r'[\\/:*?"<>|\t\n\r\f\v]+', '_', name): each maximal run
\* of invalid characters becomes one underscore
ReplaceInvalidRuns(s) ==
    LET bad(i)  == s[i] \in InvalidPathChars
        kept    == SelectSeq([i \in 1..Len(s) |-> i],
                             LAMBDA i : ~bad(i) \/ i = 1 \/ ~bad(i - 1))
    IN  [k \in 1..Len(kept) |-> IF bad(kept[k]) THEN "_" ELSE s[kept[k]]]

\* line 60 left out: every character is kept
KeepControlChars(s) == s

\* line 60
RemoveControlChars(s) == SelectSeq(s, LAMBDA c : c \notin ControlChars)

StripChars == {".", " "}

reserved_names ==
    {<<"C","O","N">>, <<"P","R","N">>, <<"A","U","X">>, <<"N","U","L">>}
    \cup {<<"C","O","M", d>> : d \in Digits \ {"0"}}
    \cup {<<"L","P","T", d>> : d \in Digits \ {"0"}}

max_len == 100

\* lines 69-70
AppendIfReserved(s) ==
    IF upper(s) \in reserved_names THEN s \o ModSuffix ELSE s

\* lines 74-75 left out: the name keeps its length
KeepLength(s) == s

\* lines 74-75
LimitLength(s) ==
    IF Len(s) > max_len THEN strip(Slice(s, max_len), StripChars) ELSE s

\* lines 47-81.  The except branch of line 53 is not modelled: normalize and
\* encode(..., 'ignore') raise nothing for a str argument.
sanitize_filename(n) ==
    IF n = <<>> THEN UnnamedMod
    ELSE \* each stage is a one-element set, the value of the stage
         LET folded   == {NormalizeToAscii(n)}
             replaced == {ReplaceInvalidRuns(s) : s \in folded}
             cleaned  == {RemoveControlChars(s) : s \in replaced}
             stripped == {strip(s, StripChars) : s \in cleaned}
             suffixed == {AppendIfReserved(s) : s \in stripped}
             limited  == {LimitLength(s) : s \in suffixed}
         IN  CHOOSE r \in {IF s = <<>> THEN UnnamedMod ELSE s : s \in limited} :
                TRUE

----------------------------------------------------------------------------
(* scrape_mod_details                                                      *)
(*                                                                         *)
(* A page is what BeautifulSoup's searches see of the markup: divs, the    *)
(* candidate containers in document order, each with its class, the first  *)
(* link in it matching /sharedfiles/filedetails/?id= (hasLink), the digits *)
(* that id=(\d+) finds in the href (<<>> when it finds none), the link's   *)
(* text and the text of the first title div (NoTitle when there is none);  *)
(* and links, the anchors of the whole document for the fallback pass.     *)

NoTitle == <<"<no title div>">>
None == <<"<None>">>

placeholder_prefix == <<"N","a","m","e"," ","n","o","t"," ","f","o","u","n","d">>

\* f"{placeholder_prefix} ({mod_id})", lines 341 and 365
Placeholder(mod_id) == placeholder_prefix \o <<" ", "(">> \o mod_id \o <<")">>

\* what str.strip() without argument and get_text(strip=True) remove
Whitespace == {" ", "\t", "\n", "\r", "\f", "U+000B", "U+00A0"}

DigitSeq == <<"0","1","2","3","4","5","6","7","8","9">>
DigitValue(c) == (CHOOSE i \in 1..10 : DigitSeq[i] = c) - 1

RECURSIVE int(_)
\* int(s) of a string of decimal digits
int(s) ==
    IF s = <<>> THEN 0
    ELSE 10 * int(SubSeq(s, 1, Len(s) - 1)) + DigitValue(s[Len(s)])

\* mod_details_dict: a dict keeps its keys in insertion order, so it is a
\* sequence of entries with distinct ids
DictKeys(d) == {d[i].id : i \in 1..Len(d)}

\* dict.get(key)
DictGet(d, key) ==
    IF key \in DictKeys(d)
    THEN d[CHOOSE i \in 1..Len(d) : d[i].id = key].name
    ELSE None

\* d[key] = value
DictSet(d, key, value) ==
    IF key \in DictKeys(d)
    THEN [i \in 1..Len(d) |->
            IF d[i].id = key THEN [id |-> key, name |-> value] ELSE d[i]]
    ELSE Append(d, [id |-> key, name |-> value])

\* lines 344-348 and 374-376: add if new, replace a placeholder by a name
\* that is none
StoreName(d, mod_id, mod_name) ==
    LET existing_name == DictGet(d, mod_id)
    IN  IF \/ existing_name = None
           \/ existing_name = <<>>
           \/ /\ startswith(existing_name, placeholder_prefix)
              /\ ~startswith(mod_name, placeholder_prefix)
        THEN DictSet(d, mod_id, mod_name)
        ELSE d

PrimaryClasses == {"workshopItem", "collectionItem"}

\* lines 309-312
FindContainers(page) ==
    LET primary == SelectSeq(page.divs, LAMBDA c : c.cls \in PrimaryClasses)
    IN  IF primary # <<>> THEN primary
        ELSE SelectSeq(page.divs, LAMBDA c : c.cls = "item")

\* lines 331-341: the name one container yields
ContainerName(c) ==
    LET mod_name == IF c.title # NoTitle
                    THEN strip(c.title, Whitespace)
                    ELSE strip(c.linkText, Whitespace)
    IN  IF mod_name = <<>> THEN Placeholder(c.id) ELSE mod_name

RECURSIVE PrimaryPass(_, _)
\* lines 317-348
PrimaryPass(containers, d) ==
    IF containers = <<>> THEN d
    ELSE LET c == Head(containers)
         IN  IF ~c.hasLink \/ c.id = <<>>
             THEN PrimaryPass(Tail(containers), d)
             ELSE PrimaryPass(Tail(containers), StoreName(d, c.id, ContainerName(c)))

\* line 369: f"id={mod_id}" in source, for a URL that carries one id= query
\* parameter, whose digits are url
UrlHasId(url, mod_id) == url # <<>> /\ startswith(url, mod_id)

RECURSIVE FallbackPass(_, _, _, _)
\* lines 357-376
FallbackPass(links, d, kind, url) ==
    IF links = <<>> THEN d
    ELSE LET link == Head(links)
             mod_name == IF link.nextTitle # NoTitle
                         THEN strip(link.nextTitle, Whitespace)
                         ELSE Placeholder(link.id)
         IN  IF ~link.absolute \/ link.id = <<>>
             THEN FallbackPass(Tail(links), d, kind, url)
             ELSE IF kind = "url" /\ UrlHasId(url, link.id) /\ link.inCollectionInfo
             THEN FallbackPass(Tail(links), d, kind, url)
             ELSE FallbackPass(Tail(links), StoreName(d, link.id, mod_name), kind, url)

\* a < b for two str
LexLess(a, b) ==
    \E k \in 1..(Len(a) + 1) :
        /\ k <= Len(b)
        /\ SubSeq(a, 1, k - 1) = SubSeq(b, 1, k - 1)
        /\ \/ k = Len(a) + 1
           \/ DigitValue(a[k]) < DigitValue(b[k])

\* the entries in ascending order of their text ids (a stable sort)
SortedByText(items) ==
    LET n == Len(items)
        before(j, i) == \/ LexLess(items[j].id, items[i].id)
                        \/ (items[j].id = items[i].id /\ j < i)
        rank(i) == Cardinality({j \in 1..n : before(j, i)}) + 1
    IN  [p \in 1..n |-> items[CHOOSE i \in 1..n : rank(i) = p]]

\* line 379: sorted(mod_details_dict.items(), key=lambda item: int(item[0])):
\* a stable sort, so entries of equal key keep their order
SortedByIntId(items) ==
    LET n == Len(items)
        key(i) == int(items[i].id)
        before(j, i) == key(j) < key(i) \/ (key(j) = key(i) /\ j < i)
        rank(i) == Cardinality({j \in 1..n : before(j, i)}) + 1
    IN  [p \in 1..n |-> items[CHOOSE i \in 1..n : rank(i) = p]]

\* lines 304-381 with the fallback run whenever the primary pass stored
\* nothing
ParsePageFallbackOnEmpty(page, kind, url) ==
    LET mod_containers == FindContainers(page)
        primary == PrimaryPass(mod_containers, <<>>)
        mod_details_dict ==
            IF primary = <<>>
            THEN FallbackPass(page.links, <<>>, kind, url)
            ELSE primary
    IN  SortedByIntId(mod_details_dict)

\* lines 304-381: the parsing of one page
ParsePage(page, kind, url) ==
    LET mod_containers == FindContainers(page)
        primary == PrimaryPass(mod_containers, <<>>)
        mod_details_dict ==
            IF primary = <<>> /\ mod_containers = <<>>
            THEN FallbackPass(page.links, <<>>, kind, url)
            ELSE primary
    IN  SortedByIntId(mod_details_dict)

\* the except clauses without the last two
HandlerNetworkOnly(exc) ==
    CASE exc = "RequestException" -> "Network Error"
      [] OTHER -> "propagates"

\* lines 384-398: the message box the except clause catching exc shows;
\* "propagates" if no clause catches it
Handler(exc) ==
    CASE exc = "RequestException" -> "Network Error"
      [] exc = "ValueError" -> "Error"
      [] OTHER -> "Scraping Error"

\* lines 287-398.  src is [url, page, net, fault]: the digits of the URL's id
\* parameter, the page pasted or served, what the GET does ("ok",
\* "http_error", "unreachable") and an exception the parsing may raise
\* ("none", "ValueError", "Exception").
scrape_mod_details(src, kind) ==
    LET fetchExc ==
            IF kind = "url"
            THEN (IF src.net = "ok" THEN "none" ELSE "RequestException")
            ELSE IF kind = "html" THEN "none" ELSE "ValueError"
        exc == IF fetchExc # "none" THEN fetchExc ELSE src.fault
        requests == IF kind = "url" THEN 1 ELSE 0
    IN  IF exc = "none"
        THEN [ret |-> ParsePage(src.page, kind, src.url), raised |-> "none",
              reports |-> <<>>, requests |-> requests]
        ELSE IF Handler(exc) = "propagates"
        THEN [ret |-> <<>>, raised |-> exc, reports |-> <<>>, requests |-> requests]
        ELSE [ret |-> <<>>, raised |-> "none",
              reports |-> <<Handler(exc)>>, requests |-> requests]

----------------------------------------------------------------------------
(* The settings store                                                      *)
(*                                                                         *)
(* A dict is a sequence of entries [key, value] with distinct keys; a key  *)
(* is text; a value is [t, v]: a str ("str", its text), a JSON number      *)
(* ("num", its digits) or None ("null").                                   *)
(* A parsed JSON document is [t, obj, str, items]: an "object" with its    *)
(* entries obj, a "string" with its text str, a "list" with its items, a   *)
(* "number", a "bool" or "null".  An item of a list is [t, str, value]: a  *)
(* "string", a "number", or a "pair", the two-element list [str, value].   *)

StrV(text) == [t |-> "str", v |-> text]
NumV(digits) == [t |-> "num", v |-> digits]
Entry(key, value) == [key |-> key, value |-> value]

KeySteamcmdPath == <<"s","t","e","a","m","c","m","d","_","p","a","t","h">>
KeyDefaultDir ==
    <<"d","e","f","a","u","l","t","_","d","o","w","n","l","o","a","d","_","d","i","r">>
KeyAppId == <<"a","p","p","_","i","d">>
KeyUserAgent == <<"u","s","e","r","_","a","g","e","n","t">>

DefaultAppId == <<"2","9","4","1","0","0">>
DefaultUserAgent == <<"M","o","z","i","l","l","a","/","5",".","0">>

\* lines 85-93
get_default_settings ==
    << Entry(KeySteamcmdPath, StrV(<<>>)),
       Entry(KeyDefaultDir, StrV(<<>>)),
       Entry(KeyAppId, StrV(DefaultAppId)),
       Entry(KeyUserAgent, StrV(DefaultUserAgent)) >>

Keys(d) == {d[i].key : i \in 1..Len(d)}

\* d.get(key, default)
Get(d, key, default) ==
    IF key \in Keys(d)
    THEN d[CHOOSE i \in 1..Len(d) : d[i].key = key].value
    ELSE default

\* d[key] = value
Put(d, key, value) ==
    IF key \in Keys(d)
    THEN [i \in 1..Len(d) |-> IF d[i].key = key THEN Entry(key, value) ELSE d[i]]
    ELSE Append(d, Entry(key, value))

RECURSIVE PutAll(_, _)
\* d.update(entries) for the entries of a dict
PutAll(d, entries) ==
    IF entries = <<>> THEN d
    ELSE PutAll(Put(d, Head(entries).key, Head(entries).value), Tail(entries))

RECURSIVE UpdateFromItems(_, _)
\* d.update(a list): each item must be a sequence of two elements, a key
\* and a value; the items before a bad one have been stored when it raises
UpdateFromItems(d, items) ==
    IF items = <<>> THEN [dict |-> d, exc |-> "none"]
    ELSE LET it == Head(items)
         IN  CASE it.t = "pair" ->
                    UpdateFromItems(Put(d, it.str, it.value), Tail(items))
               [] it.t = "string" /\ Len(it.str) = 2 ->
                    UpdateFromItems(Put(d, <<it.str[1]>>, StrV(<<it.str[2]>>)),
                                    Tail(items))
               [] it.t = "string" /\ Len(it.str) # 2 ->
                    [dict |-> d, exc |-> "ValueError"]
               [] OTHER -> [dict |-> d, exc |-> "TypeError"]

\* line 116: app_settings.update(loaded), for whatever json.loads returned
DictUpdate(d, loaded) ==
    CASE loaded.t = "object" -> [dict |-> PutAll(d, loaded.obj), exc |-> "none"]
      [] loaded.t = "list" -> UpdateFromItems(d, loaded.items)
      [] loaded.t = "string" ->
            \* a str is iterated character by character: its first item has
            \* length 1
            IF loaded.str = <<>> THEN [dict |-> d, exc |-> "none"]
            ELSE [dict |-> d, exc |-> "ValueError"]
      [] OTHER -> [dict |-> d, exc |-> "TypeError"]

\* the except clause of line 118 if it named ValueError as well
CaughtWithValueError(exc) ==
    exc \in {"JSONDecodeError", "IOError", "TypeError", "ValueError",
             "UnicodeDecodeError"}

\* line 118: except (json.JSONDecodeError, IOError, TypeError).
\* UnicodeDecodeError and the ValueError of dict.update are ValueErrors but
\* no JSONDecodeErrors.
Caught(exc) == exc \in {"JSONDecodeError", "IOError", "TypeError"}

\* lines 102-128: [settings, raised], the value of app_settings after the
\* call and the exception that escapes it; current is app_settings before
load_settings(file, current) ==
    LET defaults == get_default_settings
        \* the exception of lines 106-113 and the value of app_settings
        \* when it is raised
        attempt ==
            CASE file.kind = "unreadable" -> [dict |-> current, exc |-> "IOError"]
              [] file.kind = "undecodable" ->
                    [dict |-> current, exc |-> "UnicodeDecodeError"]
              [] file.json.t = "invalid" ->
                    [dict |-> current, exc |-> "JSONDecodeError"]
              [] OTHER -> DictUpdate(defaults, file.json)
    IN  IF file.kind = "missing" THEN [settings |-> defaults, raised |-> "none"]
        ELSE IF file.kind = "text" /\ file.json.t = "empty"
        THEN [settings |-> defaults, raised |-> "none"]
        ELSE IF attempt.exc = "none"
        THEN [settings |-> attempt.dict, raised |-> "none"]
        ELSE IF Caught(attempt.exc)
        THEN [settings |-> defaults, raised |-> "none"]
        ELSE [settings |-> attempt.dict, raised |-> attempt.exc]

J(t, obj, str, items) == [t |-> t, obj |-> obj, str |-> str, items |-> items]
JObject(obj) == J("object", obj, <<>>, <<>>)
JString(str) == J("string", <<>>, str, <<>>)
JList(items) == J("list", <<>>, <<>>, items)
JOther(t) == J(t, <<>>, <<>>, <<>>)
File(kind, json) == [kind |-> kind, json |-> json]
MissingFile == File("missing", JOther("null"))

\* json.dump keeping only the keys the defaults know
DumpKnownKeys(d) ==
    JObject(SelectSeq(d, LAMBDA e : e.key \in Keys(get_default_settings)))

\* line 140: json.dump(settings_dict, f, indent=4, ensure_ascii=False), as
\* the document json.loads reads back from the text: an object with one
\* member per key in the order of the dict, a str as a string, an int as a
\* number, None as null; characters outside ASCII are written as they are
\* and the file is UTF-8 both ways
Dump(d) == JObject(d)

SaveOutcomes == {"written", "IOError"}

\* lines 137-145: the file after save_settings(settings_dict); an IOError
\* from open leaves the file as it was and is caught
save_settings(d, file, outcome) ==
    IF outcome = "written" THEN File("text", Dump(d)) ELSE file

----------------------------------------------------------------------------
(* Progress updates                                                        *)
(*                                                                         *)
(* An update is the dict the worker puts on the queue: keys holds the keys *)
(* present, the other fields their values (a blank for an absent key).     *)
(* 'finished' is always True when present.                                 *)

Update(keys, status, current_mod, overall_value, error, show_warning) ==
    [keys |-> keys, status |-> status, current_mod |-> current_mod,
     overall_value |-> overall_value, error |-> error,
     show_warning |-> show_warning]

\* lines 423, 498, 565: a status, with or without the overall value
StatusUpdate(status, withOverall) ==
    Update(IF withOverall THEN {"status", "overall_value"} ELSE {"status"},
           status, <<>>, 0, "", FALSE)

\* lines 427, 439, 483, 538, 549, 554
ErrorUpdate(error) == Update({"error", "finished"}, <<>>, <<>>, 0, error, FALSE)

\* lines 573-577 with the position counted from 0
ItemUpdateFromZero(i, total, mod) ==
    Update({"status", "current_mod", "overall_value"},
           <<"Processing", i, total>>, <<mod.name, mod.id>>, i, "", FALSE)

\* lines 573-577
ItemUpdate(i, total, mod) ==
    Update({"status", "current_mod", "overall_value"},
           <<"Processing", i + 1, total>>, <<mod.name, mod.id>>, i, "", FALSE)

\* lines 641-648
FinalUpdate(moved, failed, total) ==
    Update({"status", "overall_value", "finished", "final_message", "show_warning"},
           <<"Finished", moved, failed>>, <<>>, total, "", failed > 0)

\* update_data.get('finished', False)
Finished(u) == "finished" \in u.keys

----------------------------------------------------------------------------
(* The download orchestrator: download_mods_with_steamcmd                  *)

TempName ==
    <<"_","s","t","e","a","m","c","m","d","_","t","e","m","p","_","d","o",
      "w","n","l","o","a","d">>

\* the Linux list of line 456, after os.path.expanduser with home /home/u
possible_paths ==
    << <<"/","h","o","m","e","/","u","/",".","s","t","e","a","m","/","s","t","e","a","m","c","m","d","/","s","t","e","a","m","c","m","d",".","s","h">>,
       <<"/","h","o","m","e","/","u","/","s","t","e","a","m","c","m","d","/","s","t","e","a","m","c","m","d",".","s","h">>,
       <<"/","u","s","r","/","g","a","m","e","s","/","s","t","e","a","m","c","m","d">>,
       <<"/","u","s","r","/","b","i","n","/","s","t","e","a","m","c","m","d">> >>

base_cmd == <<"s","t","e","a","m","c","m","d">>

\* str.isdigit() for ASCII text
isdigit(text) == text # <<>> /\ \A i \in 1..Len(text) : text[i] \in Digits

\* not value, for a settings value
Falsy(value) ==
    \/ value.t = "null"
    \/ value.t = "str" /\ value.v = <<>>
    \/ value.t = "num" /\ int(value.v) = 0

\* lines 436-440 left out: every value goes on
ValidateAppIdAcceptingAll(app_id) == "ok"

\* lines 436-440: "invalid" posts the error, "crash" is the AttributeError
\* of app_id.isdigit() on a value that is no str, "ok" goes on
ValidateAppId(app_id) ==
    IF Falsy(app_id) THEN "invalid"
    ELSE IF app_id.t # "str" THEN "crash"
    ELSE IF isdigit(app_id.v) THEN "ok" ELSE "invalid"

\* lines 444-465 without the tests: the configured path as it is, the bare
\* name when there is none
ResolveExecutableUnchecked(setting, files) ==
    IF setting.t = "str" /\ setting.v # <<>> THEN setting.v ELSE base_cmd

\* lines 444-465
ResolveExecutable(setting, files) ==
    IF setting.t = "str" /\ setting.v # <<>> /\ setting.v \in files
    THEN setting.v
    ELSE LET found == {i \in 1..Len(possible_paths) : possible_paths[i] \in files}
         IN  IF found # {}
             THEN possible_paths[CHOOSE i \in found : \A j \in found : i <= j]
             ELSE base_cmd

\* the triples in the reverse of the selection order
DownloadArgsReversed(app_id, mod_ids) ==
    Concat([i \in 1..Len(mod_ids) |->
              <<"+workshop_download_item", app_id,
                mod_ids[Len(mod_ids) + 1 - i]>>])

RECURSIVE DownloadArgs(_, _)
\* lines 493-494
DownloadArgs(app_id, mod_ids) ==
    IF mod_ids = <<>> THEN <<>>
    ELSE <<"+workshop_download_item", app_id, Head(mod_ids)>>
         \o DownloadArgs(app_id, Tail(mod_ids))

\* lines 487-495: the argument vector; install_dir is the temporary
\* directory of the destination
BuildCommand(executable, install_dir, app_id, mod_ids) ==
    <<executable, "+login", "anonymous", "+force_install_dir", install_dir>>
    \o DownloadArgs(app_id, mod_ids) \o <<"+quit">>

\* lines 528-536: which message a non-zero exit gets
ExitError(returncode, output) ==
    IF output = "not found" \/ returncode = 127 THEN "SteamCMD failed: not found"
    ELSE IF output = "connect" THEN "SteamCMD failed: connect"
    ELSE "SteamCMD failed: see stderr"

\* str(n) for 0 <= n < 100
IntStr(n) ==
    IF n < 10 THEN <<DigitSeq[n + 1]>>
    ELSE <<DigitSeq[(n \div 10) + 1], DigitSeq[(n % 10) + 1]>>

MaxCollision == 10

\* the first attempt of line 595 alone: the id is appended and the result
\* taken without looking again
CollisionLoopIdOnly(target, collision_counter, base, mod_id, existing) ==
    IF target \notin existing
    THEN [target |-> target, gave_up |-> FALSE]
    ELSE [target |-> base \o <<"_">> \o mod_id, gave_up |-> FALSE]

RECURSIVE CollisionLoop(_, _, _, _, _)
\* lines 592-607: the while loop, from its test; gave_up is the break of
\* line 607, which counts the item as failed
CollisionLoop(target, collision_counter, base, mod_id, existing) ==
    IF target \notin existing
    THEN [target |-> target, gave_up |-> FALSE]
    ELSE LET with_id == base \o <<"_">> \o mod_id
             hit == with_id \in existing
             t2 == IF hit THEN with_id \o <<"_">> \o IntStr(collision_counter)
                   ELSE with_id
             c2 == IF hit THEN collision_counter + 1 ELSE collision_counter
         IN  IF c2 > MaxCollision
             THEN [target |-> t2, gave_up |-> TRUE]
             ELSE CollisionLoop(t2, c2, base, mod_id, existing)

\* lines 585-607 without the test of line 609: the entry is never skipped
ResolveTargetWithoutSkip(base, mod_id, existing) ==
    LET r == CollisionLoop(base, 1, base, mod_id, existing)
    IN  [target |-> r.target, gave_up |-> r.gave_up, skipped |-> FALSE]

\* lines 585-609 for one entry, base its sanitized name: the target path,
\* whether the loop gave up, and whether line 609 skips the entry
ResolveTarget(base, mod_id, existing) ==
    LET r == CollisionLoop(base, 1, base, mod_id, existing)
    IN  [target |-> r.target, gave_up |-> r.gave_up,
         skipped |-> r.target \in existing]

\* line 526: the tool is taken to have succeeded
ProcessSuccessIgnoringExit(returncode) == TRUE

ProcessSuccess(returncode) == returncode = 0

----------------------------------------------------------------------------
(* The progress relay and the main window                                  *)

NORMAL == "normal"
DISABLED == "disabled"
Widgets == {"load_button", "settings_button", "download_button"}

\* set_ui_state leaving the download trigger as it is
set_ui_state_without_download(current, state) ==
    [w \in Widgets |-> IF w = "download_button" THEN current[w] ELSE state]

\* set_ui_state leaving the Settings button as it is
set_ui_state_without_settings(current, state) ==
    [w \in Widgets |-> IF w = "settings_button" THEN current[w] ELSE state]

\* lines 1122-1152: every toggled widget takes the state
set_ui_state(current, state) == [w \in Widgets |-> state]

NotApplicable == << <<"N","/","A">>, <<>> >>

\* lines 690, 696, 708: what a new progress window shows
InitialDisplay ==
    [status |-> <<"Initializing...">>, current_mod |-> NotApplicable,
     overall_value |-> 0]

\* lines 735-740: the keys present overwrite what is shown
update_progress_display(d, u) ==
    [status |-> IF "status" \in u.keys THEN u.status ELSE d.status,
     current_mod |-> IF "current_mod" \in u.keys THEN u.current_mod
                     ELSE d.current_mod,
     overall_value |-> IF "overall_value" \in u.keys THEN u.overall_value
                       ELSE d.overall_value]

RECURSIVE ApplyAll(_, _)
\* the display after the updates of one poll, in the order taken
ApplyAll(d, updates) ==
    IF updates = <<>> THEN d
    ELSE ApplyAll(update_progress_display(d, Head(updates)), Tail(updates))

\* a poll that takes one update and leaves the rest for the next poll
DrainOne(queue) == IF queue = <<>> THEN <<>> ELSE <<Head(queue)>>

\* lines 774-785: get_nowait until queue.Empty or a finished update; the
\* updates one poll takes, oldest first
Drain(queue) ==
    LET terminals == {i \in 1..Len(queue) : Finished(queue[i])}
    IN  IF terminals = {} THEN queue
        ELSE SubSeq(queue, 1, CHOOSE i \in terminals : \A j \in terminals : i <= j)

\* queue.put
put(run, u) ==
    [run EXCEPT !.queue = Append(@, u), !.posted = Append(@, u)]

\* lines 1058-1071: the worker thread, its queue and its poller at launch;
\* posted, applied, popen_calls, moves, rmtree_calls and entries_at_launch
\* record what the run has done
NewRun(number, selected_mods, install_path, entries) ==
    [number |-> number, pc |-> "start", selected_mods |-> selected_mods,
     install_path |-> install_path, queue |-> <<>>, poller |-> "scheduled",
     app_id |-> <<>>, steamcmd_command |-> <<>>,
     popen_calls |-> 0, exited |-> FALSE, returncode |-> 0,
     i |-> 0, mods_moved_count |-> 0, mods_failed_count |-> 0,
     posted |-> <<>>, applied |-> <<>>, moves |-> <<>>, rmtree_calls |-> 0,
     entries_at_launch |-> entries, produced |-> {},
     settings_at_launch |-> app_settings]

\* str() of a settings value, as a StringVar shows it
ToText(value) ==
    IF value.t = "null" THEN <<"N","o","n","e">> ELSE value.v

\* the progress window exists (winfo_exists)
WindowExists == progress_window \in {"guarded", "closable"}

----------------------------------------------------------------------------
(* The sanitizer on its own: one call on an input drawn from a family of   *)
(* strings  head . pad^n . tail  whose lengths reach past max_len.         *)

MaxPad == 3

Repeat(c, n) == [i \in 1..n |-> c]

PadLengths == (0..MaxPad) \cup ((max_len - MaxPad - 3)..(max_len + MaxPad))

SanHeads ==
    { <<>>,
      <<"C","O","N">>, <<"c","o","n">>, <<"N","u","l">>, <<"C","O","M","1">>,
      <<"l","p","t","9">>, <<"C","O","M","0">>, <<"C","O","N","S">>,
      <<" ", ".", "A","U","X">>,
      <<"F","o","o">>,
      <<"M","y","/","M","o","d",":","N","a","m","e">>,
      <<"a","/","/","\\","b">>,
      <<"U+00E9","t","U+00E9">>, <<"U+65E5">>, <<"P","R","N","U+65E5">>,
      <<"C","O","N","U+2026">>, <<"a","U+FF0F","b">>, <<"U+00A0","x">>,
      <<"a","U+0001","b">>, <<"C","U+0001","O","N">>, <<"\t","x">> }

SanPads == {" ", ".", "a", "/", "_"}

SanTails == { <<>>, <<"x">>, <<".">>, <<" ", "x">>, <<"U+65E5">> }

SanInputs ==
    { h \o Repeat(p, n) \o t :
        h \in SanHeads, p \in SanPads, n \in PadLengths, t \in SanTails }

\* the variables of a part of the program that a behaviour does not exercise
SanRest == name = <<>> /\ sanitized = NotReturned
ScrRest ==
    /\ source_type = "html"
    /\ source = [url |-> <<>>, page |-> [divs |-> <<>>, links |-> <<>>],
                 net |-> "ok", fault |-> "none"]
    /\ scraped = NotScraped

SetRest ==
    /\ settings_file = MissingFile
    /\ app_settings = <<>>
    /\ raised = "not called"
    /\ settings_dict = <<>>

EmptyDir == [entries |-> {}, content |-> {}]
AppRest ==
    /\ mod_vars = <<>>
    /\ widgets = [w \in Widgets |-> NORMAL]
    /\ progress_window = "none"
    /\ display = InitialDisplay
    /\ runs = <<>>
    /\ launched = 0
    /\ fs = EmptyDir
    /\ env = [files |-> {}, on_path |-> FALSE]

SanInit ==
    /\ component = "sanitizer"
    /\ name \in SanInputs
    /\ sanitized = NotReturned
    /\ ScrRest
    /\ SetRest
    /\ AppRest

\* a call sanitize_filename(name)
Sanitize ==
    /\ component = "sanitizer"
    /\ sanitized = NotReturned
    /\ sanitized' = sanitize_filename(name)
    /\ UNCHANGED <<name, scrVars, setVars, appVars, component>>

SanNext == Sanitize

SpecSanitize == SanInit /\ [][SanNext]_vars

----------------------------------------------------------------------------
(* The scraper on its own: one call on a page of up to MaxContainers       *)
(* containers, or of up to MaxLinks free links and no container.           *)

MaxContainers == 3
MaxLinks == 2

SeqsUpTo(S, n) == UNION {[1..k -> S] : k \in 0..n}

Id123 == <<"1","2","3">>
Id10  == <<"1","0">>
Id2   == <<"2">>
Id33  == <<"3","3">>
Foo == <<"F","o","o">>
Bar == <<"B","a","r">>
NameNotFoundFix == placeholder_prefix \o <<" ","f","i","x">>

Div(cls, hasLink, id, linkText, title) ==
    [cls |-> cls, hasLink |-> hasLink, id |-> id, linkText |-> linkText,
     title |-> title]

ContainerPool ==
    { Div("workshopItem", TRUE, Id123, <<>>, Foo),
      Div("workshopItem", TRUE, Id123, <<>>, NoTitle),
      Div("workshopItem", TRUE, Id123, <<>>, NameNotFoundFix),
      Div("collectionItem", TRUE, Id123, <<>>, Bar),
      Div("collectionItem", TRUE, Id10, <<>>, <<" ">> \o Bar \o <<"\n">>),
      Div("workshopItem", TRUE, Id2, <<" ">> \o Foo, NoTitle),
      Div("workshopItem", TRUE, Id33, Bar, <<" ">>),
      Div("item", TRUE, Id2, <<>>, Foo),
      Div("workshopItem", FALSE, <<>>, <<>>, Foo),
      Div("workshopItem", TRUE, <<>>, Foo, NoTitle) }

Link(absolute, id, nextTitle, inCollectionInfo) ==
    [absolute |-> absolute, id |-> id, nextTitle |-> nextTitle,
     inCollectionInfo |-> inCollectionInfo]

LinkPool ==
    { Link(TRUE, Id123, Foo, TRUE),
      Link(TRUE, Id123, NoTitle, FALSE),
      Link(TRUE, Id10, <<" ">>, FALSE),
      Link(TRUE, Id2, Bar, FALSE),
      Link(FALSE, Id33, Foo, FALSE) }

Pages ==
    {[divs |-> ds, links |-> <<>>] : ds \in SeqsUpTo(ContainerPool, MaxContainers)}
    \cup {[divs |-> <<>>, links |-> ls] : ls \in SeqsUpTo(LinkPool, MaxLinks)}
    \cup \* a page with one container and links outside it
         {[divs |-> <<c>>, links |-> ls] :
             c \in ContainerPool, ls \in SeqsUpTo(LinkPool, MaxLinks) \ {<<>>}}

SmallPages ==
    {[divs |-> ds, links |-> <<>>] : ds \in SeqsUpTo(ContainerPool, 1)}

SourceTypes == {"url", "html", "file"}

\* every page parsed without a fault, from pasted HTML and from a URL; the
\* failures of the fetch and of the parsing on the small pages
ScrapeInputs ==
    {<<k, [url |-> u, page |-> pg, net |-> "ok", fault |-> "none"]>> :
        k \in {"url", "html"}, u \in {Id123}, pg \in Pages}
    \cup {<<k, [url |-> u, page |-> pg, net |-> n, fault |-> f]>> :
            k \in SourceTypes, u \in {<<>>, Id123}, pg \in SmallPages,
            n \in {"ok", "http_error", "unreachable"},
            f \in {"none", "ValueError", "Exception"}}

ScrInit ==
    /\ component = "scraper"
    /\ \E in \in ScrapeInputs : source_type = in[1] /\ source = in[2]
    /\ scraped = NotScraped
    /\ SanRest
    /\ SetRest
    /\ AppRest

\* a call scrape_mod_details(source, source_type)
Scrape ==
    /\ component = "scraper"
    /\ scraped = NotScraped
    /\ scraped' = scrape_mod_details(source, source_type)
    /\ UNCHANGED <<source_type, source, sanVars, setVars, appVars, component>>

ScrNext == Scrape

SpecScrape == ScrInit /\ [][ScrNext]_vars

----------------------------------------------------------------------------
(* The settings store on its own: load_settings on a settings file in any  *)
(* condition, from the app_settings = {} of line 24.                       *)

Id107410 == <<"1","0","7","4","1","0">>
KeyTheme == <<"t","h","e","m","e">>
SlashS == <<"/","s">>

\* an object with each of its keys absent or taking one of a few values
ObjectPool ==
    { Concat(<<a, b, c, d>>) :
        a \in {<<>>} \cup {<<Entry(KeyAppId, v)>> :
                  v \in {StrV(DefaultAppId), StrV(Id107410), StrV(<<>>),
                         StrV(<<"a","b","c">>), NumV(DefaultAppId),
                         [t |-> "null", v |-> <<>>]}},
        b \in {<<>>} \cup {<<Entry(KeySteamcmdPath, v)>> :
                  v \in {StrV(<<>>), StrV(SlashS)}},
        c \in {<<>>, <<Entry(KeyTheme, StrV(<<"x">>))>>},
        d \in {<<>>, <<Entry(KeyUserAgent, StrV(<<"U","A">>))>>} }

Item(t, str, value) == [t |-> t, str |-> str, value |-> value]
PairItem == Item("pair", KeyAppId, StrV(<<"x">>))
StringItem(str) == Item("string", str, StrV(<<>>))
NumberItem == Item("number", <<>>, StrV(<<>>))

NonObjectPool ==
    { JString(<<>>), JString(<<"a","b">>), JString(<<"a","b","c">>),
      JOther("number"), JOther("null"), JOther("bool"),
      JList(<<>>), JList(<<NumberItem>>),
      JList(<<StringItem(<<"a","b">>)>>), JList(<<StringItem(<<"a","b","c">>)>>),
      JList(<<PairItem>>), JList(<<PairItem, StringItem(<<"a">>)>>),
      JList(<<PairItem, NumberItem>>) }

SettingsFiles ==
    { MissingFile, File("unreadable", JOther("null")),
      File("undecodable", JOther("null")),
      File("text", JOther("empty")), File("text", JOther("invalid")) }
    \cup {File("text", JObject(o)) : o \in ObjectPool}
    \cup {File("text", j) : j \in NonObjectPool}

SetInit ==
    /\ component = "settings"
    /\ settings_file \in SettingsFiles
    /\ app_settings = <<>>
    /\ raised = "not called"
    /\ settings_dict = <<>>
    /\ SanRest
    /\ ScrRest
    /\ AppRest

\* a call load_settings()
LoadSettings ==
    /\ component = "settings"
    /\ LET r == load_settings(settings_file, app_settings)
       IN  /\ app_settings' = r.settings
           /\ raised' = r.raised
    /\ UNCHANGED <<settings_file, settings_dict, sanVars, scrVars, appVars, component>>

SetNext == LoadSettings

SpecSettings == SetInit /\ [][SetNext]_vars

----------------------------------------------------------------------------
(* The settings round trip: save_settings on a mapping with a valid        *)
(* numeric app_id, over whatever file was there, then load_settings.       *)

ValidAppIds == {StrV(DefaultAppId), StrV(Id107410), NumV(DefaultAppId)}

SettingsDicts == {o \in ObjectPool : Get(o, KeyAppId, StrV(<<>>)) \in ValidAppIds}

OldFiles ==
    { MissingFile, File("text", JOther("invalid")),
      File("text", JObject(<<Entry(KeyAppId, StrV(<<"9">>)),
                             Entry(KeyTheme, StrV(<<"o","l","d">>))>>)) }

TripInit ==
    /\ component = "roundtrip"
    /\ settings_file \in OldFiles
    /\ settings_dict \in SettingsDicts
    /\ app_settings = <<>>
    /\ raised = "not called"
    /\ SanRest
    /\ ScrRest
    /\ AppRest

\* a call save_settings(settings_dict)
SaveSettings ==
    /\ component = "roundtrip"
    /\ \E outcome \in SaveOutcomes :
        settings_file' = save_settings(settings_dict, settings_file, outcome)
    /\ raised' = "not called"
    /\ UNCHANGED <<settings_dict, app_settings, sanVars, scrVars, appVars, component>>

\* a call load_settings()
LoadSaved ==
    /\ component = "roundtrip"
    /\ LET r == load_settings(settings_file, app_settings)
       IN  /\ app_settings' = r.settings
           /\ raised' = r.raised
    /\ UNCHANGED <<settings_file, settings_dict, sanVars, scrVars, appVars, component>>

TripNext == SaveSettings \/ LoadSaved

SpecRoundTrip == TripInit /\ [][TripNext]_vars

----------------------------------------------------------------------------
(* The application: main() has loaded the settings and shows the main      *)
(* window; the user loads a page, ticks mods, saves settings and starts    *)
(* downloads; each download is a worker thread with its queue and poller.  *)

MaxRuns == 2
MaxPre == 3

Id555 == <<"5","5","5">>
Id556 == <<"5","5","6">>
Dirs == {"/mods"}

FooWithId == Foo \o <<"_">> \o Id555
FooWithIdAnd(k) == FooWithId \o <<"_">> \o IntStr(k)

\* the destination holds Foo (level 1), Foo_555 as well (level 2), and
\* Foo_555_1 .. Foo_555_(level - 2) beyond that
PreExisting(level) ==
    IF level = 0 THEN {}
    ELSE IF level = 1 THEN {Foo}
    ELSE {Foo, FooWithId} \cup {FooWithIdAnd(k) : k \in 1..(level - 2)}

DestLevels == {0} \cup (2..MaxPre) \cup {MaxCollision + 1, MaxCollision + 2}

DestPool ==
    {PreExisting(level) : level \in DestLevels}
    \cup {{Foo, FooWithId, FooWithIdAnd(2)}}

AppIdNumberFile == File("text", JObject(<<Entry(KeyAppId, NumV(DefaultAppId))>>))
AppIdEmptyFile == File("text", JObject(<<Entry(KeyAppId, StrV(<<>>))>>))
AppIdOtherFile == File("text", JObject(<<Entry(KeyAppId, StrV(Id107410))>>))
PathFile == File("text", JObject(<<Entry(KeySteamcmdPath, StrV(SlashS))>>))

Env(files, on_path) == [files |-> files, on_path |-> on_path]

\* settings.json and the installed tool at startup
Setups ==
    { <<MissingFile, Env({}, TRUE)>>,
      <<MissingFile, Env({}, FALSE)>>,
      <<MissingFile, Env({possible_paths[2], possible_paths[4]}, FALSE)>>,
      <<PathFile, Env({SlashS, possible_paths[4]}, FALSE)>>,
      <<AppIdNumberFile, Env({}, TRUE)>>,
      <<AppIdOtherFile, Env({}, TRUE)>>,
      <<AppIdEmptyFile, Env({}, TRUE)>> }

\* what the user pastes: a page of two mods with the same title, a page
\* with none
AppPages ==
    { [divs |-> << Div("workshopItem", TRUE, Id555, <<>>, Foo),
                   Div("workshopItem", TRUE, Id556, <<>>, Foo) >>,
       links |-> <<>>],
      [divs |-> <<>>, links |-> <<>>] }

\* what the user types into the App ID field, besides leaving it as shown
AppIdInputs == {<<>>, <<"a","b","c">>}

ReturnCodes == {0, 1}

AppInit ==
    /\ component = "app"
    /\ \E setup \in Setups, entries \in DestPool :
        /\ entries = {} \/ setup = <<MissingFile, Env({}, TRUE)>>
        /\ settings_file = setup[1]
        /\ env = setup[2]
        /\ fs = [d \in Dirs |-> [entries |-> entries, content |-> {}]]
        \* line 1161: the GUI starts if load_settings returns
        /\ load_settings(setup[1], <<>>).raised = "none"
        /\ app_settings = load_settings(setup[1], <<>>).settings
    /\ raised = "none"
    /\ settings_dict = <<>>
    /\ mod_vars = <<>>
    /\ widgets = [w \in Widgets |-> NORMAL]
    /\ progress_window = "none"
    /\ display = InitialDisplay
    /\ runs = <<>>
    /\ launched = 0
    /\ SanRest
    /\ ScrRest

AppUnchanged == UNCHANGED <<sanVars, scrVars, raised, component>>

\* a thread that has not returned, or a timer that is still scheduled;
\* nothing refers to the thread and the queue of a run that is over
Live(run) == run.pc \notin {"ended", "crashed"} \/ run.poller = "scheduled"

\* lines 1077-1120 with populate_mod_list, lines 963-994
LoadMods ==
    /\ component = "app"
    /\ widgets["load_button"] = NORMAL
    /\ \E page \in AppPages :
        LET src == [url |-> <<>>, page |-> page, net |-> "ok", fault |-> "none"]
            mod_details == scrape_mod_details(src, "html").ret
        IN  mod_vars' = [i \in 1..Len(mod_details) |->
                            [var |-> TRUE, id |-> mod_details[i].id,
                             name |-> mod_details[i].name]]
    /\ widgets' = set_ui_state(set_ui_state(widgets, DISABLED), NORMAL)
    /\ UNCHANGED <<progress_window, display, runs, launched, fs, env, setVars>>
    /\ AppUnchanged

\* line 986: a checkbutton of the list, never disabled
ToggleMod ==
    /\ component = "app"
    /\ \E i \in 1..Len(mod_vars) :
        mod_vars' = [mod_vars EXCEPT ![i].var = ~@]
    /\ UNCHANGED <<widgets, progress_window, display, runs, launched, fs, env, setVars>>
    /\ AppUnchanged

\* lines 214-235 with save_settings, lines 130-145; the Settings button
\* opens the modal window
OnSave ==
    /\ component = "app"
    /\ widgets["settings_button"] = NORMAL
    /\ \E typed \in AppIdInputs \cup {ToText(Get(app_settings, KeyAppId, StrV(<<>>)))},
          outcome \in SaveOutcomes :
        LET app_id_val == strip(typed, Whitespace)
            user_agent == strip(ToText(Get(app_settings, KeyUserAgent, StrV(<<>>))),
                                Whitespace)
            new_settings ==
                << Entry(KeySteamcmdPath,
                         StrV(strip(ToText(Get(app_settings, KeySteamcmdPath,
                                               StrV(<<>>))), Whitespace))),
                   Entry(KeyDefaultDir,
                         StrV(strip(ToText(Get(app_settings, KeyDefaultDir,
                                               StrV(<<>>))), Whitespace))),
                   Entry(KeyAppId,
                         StrV(IF app_id_val # <<>> THEN app_id_val
                              ELSE DefaultAppId)),
                   Entry(KeyUserAgent,
                         StrV(IF user_agent # <<>> THEN user_agent
                              ELSE DefaultUserAgent)) >>
        IN  /\ app_id_val = <<>> \/ isdigit(app_id_val)
            /\ app_settings' = PutAll(app_settings, new_settings)
            /\ UNCHANGED settings_dict
            /\ settings_file' = save_settings(app_settings', settings_file, outcome)
    /\ UNCHANGED <<guiVars, runs, launched, fs, env>>
    /\ AppUnchanged

\* lines 1014-1074 with create_progress_window, lines 664-718
StartDownload ==
    /\ component = "app"
    /\ widgets["download_button"] = NORMAL
    /\ launched < MaxRuns
    /\ mod_vars # <<>>
    /\ LET ticked == SelectSeq(mod_vars, LAMBDA m : m.var)
           selected_mods_data ==
               [i \in 1..Len(ticked) |-> [id |-> ticked[i].id, name |-> ticked[i].name]]
       IN  /\ selected_mods_data # <<>>
           /\ \E install_path \in Dirs :
                runs' = Append(SelectSeq(runs, Live),
                               NewRun(launched + 1, selected_mods_data,
                                      install_path, fs[install_path].entries))
    /\ launched' = launched + 1
    /\ progress_window' = "guarded"
    /\ display' = InitialDisplay
    /\ widgets' = set_ui_state(widgets, DISABLED)
    /\ UNCHANGED <<mod_vars, fs, env, setVars>>
    /\ AppUnchanged

\* line 749: the close button of the progress window once it is released
CloseProgressWindow ==
    /\ component = "app"
    /\ progress_window = "closable"
    /\ progress_window' = "destroyed"
    /\ UNCHANGED <<mod_vars, widgets, display, runs, launched, fs, env, setVars>>
    /\ AppUnchanged

\* the worker of run k returns after posting a terminal update
Return(k, run, u) ==
    runs' = [runs EXCEPT ![k] = [put(run, u) EXCEPT !.pc = "ended"]]

\* line 423
W_Start(k) ==
    /\ component = "app"
    /\ k \in 1..Len(runs)
    /\ runs[k].pc = "start"
    /\ runs' = [runs EXCEPT ![k] =
                  [put(@, StatusUpdate(<<"Initializing download...">>, TRUE))
                      EXCEPT !.pc = "prepare"]]
    /\ UNCHANGED <<guiVars, launched, fs, env, setVars>>
    /\ AppUnchanged

\* lines 425-498: the selection, the App ID, the executable, the temporary
\* directory and the command
W_Prepare(k) ==
    /\ component = "app"
    /\ k \in 1..Len(runs)
    /\ runs[k].pc = "prepare"
    /\ LET run == runs[k]
           steamcmd_path_setting == Get(app_settings, KeySteamcmdPath, StrV(<<>>))
           app_id == Get(app_settings, KeyAppId, StrV(DefaultAppId))
           steamcmd_executable == ResolveExecutable(steamcmd_path_setting, env.files)
           dir == fs[run.install_path]
           mod_ids == [i \in 1..Len(run.selected_mods) |-> run.selected_mods[i].id]
       IN  IF run.selected_mods = <<>>
           THEN /\ Return(k, run, ErrorUpdate("No mods selected for download."))
                /\ UNCHANGED fs
           ELSE IF ValidateAppId(app_id) = "invalid"
           THEN /\ Return(k, run, ErrorUpdate("Invalid or missing App ID"))
                /\ UNCHANGED fs
           ELSE IF ValidateAppId(app_id) = "crash"
           THEN \* AttributeError at line 436: the thread dies
                /\ runs' = [runs EXCEPT ![k].pc = "crashed"]
                /\ UNCHANGED fs
           ELSE \E made \in BOOLEAN :
                  IF made
                  THEN /\ fs' = [fs EXCEPT ![run.install_path].entries =
                                              @ \cup {TempName}]
                       /\ runs' = [runs EXCEPT ![k] =
                            [put(run, StatusUpdate(<<"Running SteamCMD">>, FALSE))
                               EXCEPT !.pc = "popen",
                                      !.app_id = app_id.v,
                                      !.steamcmd_command =
                                          BuildCommand(steamcmd_executable,
                                                       <<run.install_path, TempName>>,
                                                       app_id.v, mod_ids)]]
                  ELSE /\ Return(k, run,
                                 ErrorUpdate("Error creating temporary directory"))
                       /\ UNCHANGED fs
    /\ UNCHANGED <<guiVars, launched, env, setVars>>
    /\ AppUnchanged

\* Popen finds the program: a path that exists, or a name on the PATH
Launchable(executable) ==
    \/ executable \in env.files
    \/ executable = base_cmd /\ env.on_path

\* lines 503-565: the tool runs and exits; it has written the items of
\* produced under the temporary directory
W_RunTool(k) ==
    /\ component = "app"
    /\ k \in 1..Len(runs)
    /\ runs[k].pc = "popen"
    /\ LET run == [runs[k] EXCEPT !.popen_calls = @ + 1]
           ids == {run.selected_mods[i].id : i \in 1..Len(run.selected_mods)}
       IN  IF ~Launchable(run.steamcmd_command[1])
           THEN /\ Return(k, run, ErrorUpdate("Command not found"))
                /\ UNCHANGED fs
           ELSE \/ /\ Return(k, run, ErrorUpdate("Unexpected error running SteamCMD"))
                   /\ UNCHANGED fs
                \/ \E returncode \in ReturnCodes, produced \in SUBSET ids :
                    /\ fs' = [fs EXCEPT ![run.install_path].content =
                                @ \cup {<<run.app_id, id>> : id \in produced}]
                    /\ IF ProcessSuccess(returncode)
                       THEN runs' = [runs EXCEPT ![k] =
                              [put(run, StatusUpdate(<<"Processing downloaded mods...">>,
                                                     TRUE))
                                 EXCEPT !.pc = "process", !.exited = TRUE,
                                        !.returncode = returncode,
                                        !.produced = produced]]
                       ELSE Return(k, [run EXCEPT !.exited = TRUE,
                                                  !.returncode = returncode,
                                                  !.produced = produced],
                                   ErrorUpdate(ExitError(returncode, "")))
    /\ UNCHANGED <<guiVars, launched, env, setVars>>
    /\ AppUnchanged

\* what lines 583-625 do with one entry; existing and source_isdir are what
\* os.path.exists and os.path.isdir answered, gave_up is the break of line
\* 607, moved and failed are what the turn adds to the two counters
Move(mod_id, base, existing, source_isdir, target, gave_up, result, moved, failed) ==
    [id |-> mod_id, base |-> base, existing |-> existing,
     source_isdir |-> source_isdir, target |-> target, gave_up |-> gave_up,
     result |-> result, moved |-> moved, failed |-> failed]

\* lines 571-625: one turn of the loop
W_ProcessItem(k) ==
    /\ component = "app"
    /\ k \in 1..Len(runs)
    /\ runs[k].pc = "process"
    /\ runs[k].i < Len(runs[k].selected_mods)
    /\ \E mod \in {runs[k].selected_mods[runs[k].i + 1]} :
       \E target_folder_name_base \in {sanitize_filename(mod.name)} :
       \E r \in {ResolveTarget(target_folder_name_base, mod.id,
                               fs[runs[k].install_path].entries)} :
       LET run == runs[k]
           dir == fs[run.install_path]
           announced == put(run, ItemUpdate(run.i, Len(run.selected_mods), mod))
           source_mod_path == <<run.app_id, mod.id>>
           source_isdir == TempName \in dir.entries /\ source_mod_path \in dir.content
           gave_up == IF r.gave_up THEN 1 ELSE 0
           Done(result, moved, failed) ==
               [announced EXCEPT
                   !.i = @ + 1,
                   !.mods_moved_count = @ + moved,
                   !.mods_failed_count = @ + gave_up + failed,
                   !.moves = Append(@, Move(mod.id, target_folder_name_base,
                                            dir.entries, source_isdir,
                                            r.target, r.gave_up, result,
                                            moved, gave_up + failed))]
       IN  IF r.skipped
           THEN /\ runs' = [runs EXCEPT ![k] = Done("skipped", 0, 0)]
                /\ UNCHANGED fs
           ELSE IF source_isdir
           THEN \E ok \in BOOLEAN :
                  IF ok
                  THEN /\ fs' = [fs EXCEPT ![run.install_path] =
                                   [entries |-> dir.entries \cup {r.target},
                                    content |-> dir.content \ {source_mod_path}]]
                       /\ runs' = [runs EXCEPT ![k] = Done("moved", 1, 0)]
                  ELSE /\ runs' = [runs EXCEPT ![k] = Done("move_error", 0, 1)]
                       /\ UNCHANGED fs
           ELSE /\ runs' = [runs EXCEPT ![k] = Done("missing", 0, 1)]
                /\ UNCHANGED fs
    /\ UNCHANGED <<guiVars, launched, env, setVars>>
    /\ AppUnchanged

\* lines 627-648 with a failed removal reported as an error of the run
W_FinishReportingCleanup(k) ==
    /\ component = "app"
    /\ k \in 1..Len(runs)
    /\ runs[k].pc = "process"
    /\ runs[k].i = Len(runs[k].selected_mods)
    /\ LET run == runs[k]
           dir == fs[run.install_path]
           final == FinalUpdate(run.mods_moved_count, run.mods_failed_count,
                                Len(run.selected_mods))
       IN  \E removed \in BOOLEAN :
             IF removed /\ TempName \in dir.entries
             THEN /\ fs' = [fs EXCEPT ![run.install_path] =
                              [entries |-> dir.entries \ {TempName}, content |-> {}]]
                  /\ Return(k, [run EXCEPT !.rmtree_calls = @ + 1], final)
             ELSE /\ UNCHANGED fs
                  /\ Return(k, [run EXCEPT !.rmtree_calls = @ + 1],
                            ErrorUpdate("Could not remove temporary download directory"))
    /\ UNCHANGED <<guiVars, launched, env, setVars>>
    /\ AppUnchanged

\* lines 627-648: the cleanup and the final update
W_Finish(k) ==
    /\ component = "app"
    /\ k \in 1..Len(runs)
    /\ runs[k].pc = "process"
    /\ runs[k].i = Len(runs[k].selected_mods)
    /\ LET run == runs[k]
           dir == fs[run.install_path]
           final == FinalUpdate(run.mods_moved_count, run.mods_failed_count,
                                Len(run.selected_mods))
       IN  /\ Return(k, [run EXCEPT !.rmtree_calls = @ + 1], final)
           /\ \E removed \in BOOLEAN :
                IF removed /\ TempName \in dir.entries
                THEN fs' = [fs EXCEPT ![run.install_path] =
                              [entries |-> dir.entries \ {TempName}, content |-> {}]]
                ELSE UNCHANGED fs
    /\ UNCHANGED <<guiVars, launched, env, setVars>>
    /\ AppUnchanged

Worker(k) ==
    \/ W_Start(k)
    \/ W_Prepare(k)
    \/ W_RunTool(k)
    \/ W_ProcessItem(k)
    \/ W_Finish(k)

\* lines 764-800: one firing of the timer of run k
Poll(k) ==
    /\ component = "app"
    /\ k \in 1..Len(runs)
    /\ runs[k].poller = "scheduled"
    /\ LET run == runs[k]
           taken == Drain(run.queue)
           finished == taken # <<>> /\ Finished(taken[Len(taken)])
       IN  /\ display' = IF WindowExists THEN ApplyAll(display, taken) ELSE display
           /\ progress_window' = IF finished /\ WindowExists THEN "closable"
                                 ELSE progress_window
           /\ widgets' = IF finished \/ ~WindowExists
                         THEN set_ui_state(widgets, NORMAL)
                         ELSE widgets
           /\ runs' = [runs EXCEPT ![k] =
                 [run EXCEPT
                    !.queue = SubSeq(@, Len(taken) + 1, Len(@)),
                    !.applied = IF WindowExists THEN @ \o taken ELSE @,
                    !.poller = IF finished THEN "stopped"
                               ELSE IF WindowExists THEN "scheduled"
                               ELSE "abandoned"]]
    /\ UNCHANGED <<mod_vars, launched, fs, env, setVars>>
    /\ AppUnchanged

AppNext ==
    \/ LoadMods
    \/ ToggleMod
    \/ OnSave
    \/ StartDownload
    \/ CloseProgressWindow
    \/ \E k \in 1..MaxRuns : W_Start(k)
    \/ \E k \in 1..MaxRuns : W_Prepare(k)
    \/ \E k \in 1..MaxRuns : W_RunTool(k)
    \/ \E k \in 1..MaxRuns : W_ProcessItem(k)
    \/ \E k \in 1..MaxRuns : W_Finish(k)
    \/ \E k \in 1..MaxRuns : Poll(k)

Spec == AppInit /\ [][AppNext]_vars

\* the scheduler runs the worker thread, the tool exits, and the timer of
\* line 795 fires
Fairness ==
    \A k \in 1..MaxRuns : WF_vars(Worker(k)) /\ WF_vars(Poll(k))

\* download_mods_with_steamcmd called once, as start_download leaves
\* things (window shown, controls disabled, timer scheduled), on any
\* selection, the empty one included, any destination and any setup
Mod(id, mod_name) == [id |-> id, name |-> mod_name]

RunSelections ==
    { <<>>,
      <<Mod(Id555, Foo)>>,
      <<Mod(Id555, Foo), Mod(Id556, Foo)>>,
      <<Mod(Id556, Bar), Mod(Id555, Foo)>> }

\* the setups of the application, and one whose configured path is gone
\* while the tool sits in a conventional place
RunSetups == Setups \cup {<<PathFile, Env({possible_paths[3], possible_paths[4]}, FALSE)>>}

RunInit ==
    /\ component = "app"
    /\ \E setup \in RunSetups, entries \in DestPool, selected \in RunSelections,
          install_path \in Dirs :
        /\ settings_file = setup[1]
        /\ env = setup[2]
        /\ fs = [d \in Dirs |-> [entries |-> entries, content |-> {}]]
        /\ load_settings(setup[1], <<>>).raised = "none"
        /\ app_settings = load_settings(setup[1], <<>>).settings
        /\ runs = <<NewRun(1, selected, install_path, entries)>>
    /\ launched = 1
    /\ raised = "none"
    /\ settings_dict = <<>>
    /\ mod_vars = <<>>
    /\ widgets = set_ui_state([w \in Widgets |-> NORMAL], DISABLED)
    /\ progress_window = "guarded"
    /\ display = InitialDisplay
    /\ SanRest
    /\ ScrRest

RunNext ==
    \/ W_Start(1)
    \/ W_Prepare(1)
    \/ W_RunTool(1)
    \/ W_ProcessItem(1)
    \/ W_Finish(1)
    \/ Poll(1)

SpecRun == RunInit /\ [][RunNext]_vars

\* the runs of a user who leaves the ticks and the settings as they are,
\* into an empty destination
LiveInit == AppInit /\ \A d \in Dirs : fs[d].entries = {}

LiveNext ==
    \/ LoadMods
    \/ StartDownload
    \/ CloseProgressWindow
    \/ \E k \in 1..MaxRuns : W_Start(k)
    \/ \E k \in 1..MaxRuns : W_Prepare(k)
    \/ \E k \in 1..MaxRuns : W_RunTool(k)
    \/ \E k \in 1..MaxRuns : W_ProcessItem(k)
    \/ \E k \in 1..MaxRuns : W_Finish(k)
    \/ \E k \in 1..MaxRuns : Poll(k)

SpecLive == LiveInit /\ [][LiveNext]_vars /\ Fairness

----------------------------------------------------------------------------
(* C1: the result of sanitize_filename is never, ignoring case, one of the *)
(* reserved device names, whatever the length of the input.                *)
C1_NeverReserved ==
    sanitized # NotReturned => upper(sanitized) \notin reserved_names

\* the call has returned a list without reporting an error
ScrapeSucceeded ==
    scraped.raised = "none" /\ scraped.reports = <<>>

\* the containers of the page that yield an entry for mod_id
ContainersOf(mod_id) ==
    LET cs == FindContainers(source.page)
    IN  {cs[i] : i \in {j \in 1..Len(cs) : cs[j].hasLink /\ cs[j].id = mod_id}}

\* the title text a container carries: its title div's, else its link's
TitleText(c) ==
    IF c.title # NoTitle THEN strip(c.title, Whitespace)
    ELSE strip(c.linkText, Whitespace)

(* C7: the scrape result holds exactly one entry per identifier, and when  *)
(* at least one container of an identifier has a real title, the entry's   *)
(* name is one of the real titles, whichever container comes first.        *)
C7_OneEntryWithRealTitle ==
    ScrapeSucceeded =>
        /\ \A i, j \in 1..Len(scraped.ret) :
              scraped.ret[i].id = scraped.ret[j].id => i = j
        /\ \A mod_id \in {Id123, Id10, Id2, Id33} :
              \A c \in ContainersOf(mod_id) :
                 TitleText(c) # <<>> =>
                    \E i \in 1..Len(scraped.ret) :
                       /\ scraped.ret[i].id = mod_id
                       /\ \E c2 \in ContainersOf(mod_id) :
                             /\ TitleText(c2) # <<>>
                             /\ scraped.ret[i].name = TitleText(c2)

(* C8: the list scrape_mod_details returns is sorted ascending by the      *)
(* numeric value of the identifier, not by its text.                       *)
C8_SortedByNumericId ==
    ScrapeSucceeded =>
        \A i \in 1..(Len(scraped.ret) - 1) :
            int(scraped.ret[i].id) <= int(scraped.ret[i + 1].id)

\* containers for 10, 2, 33 in that order came back as 2, 10, 33
C8_Witness ==
    /\ ScrapeSucceeded
    /\ Len(source.page.divs) = 3
    /\ [i \in 1..3 |-> source.page.divs[i].id] = <<Id10, Id2, Id33>>
    /\ [i \in 1..Len(scraped.ret) |-> scraped.ret[i].id] = <<Id2, Id10, Id33>>

\* the call is one the claim says ends in an error report
ScrapeMustFail ==
    \/ source_type \notin {"url", "html"}
    \/ source_type = "url" /\ source.net # "ok"
    \/ source.fault # "none"

DegradesToDefaults(file) ==
    \/ file.kind \in {"missing", "unreadable", "undecodable"}
    \/ file.json.t \in {"empty", "invalid", "string", "number", "list", "null", "bool"}

(* C10: load_settings never raises: for a missing, empty, unreadable or    *)
(* undecodable file, for invalid JSON and for JSON that is no object it    *)
(* leaves app_settings equal to exactly the built-in defaults.             *)
C10_LoadDegradesToDefaults ==
    (raised # "not called" /\ DegradesToDefaults(settings_file)) =>
        /\ raised = "none"
        /\ app_settings = get_default_settings

----------------------------------------------------------------------------
(* Claims about the application                                            *)

RunIndexes == 1..Len(runs)

\* the terminal updates among a sequence of updates
Terminals(updates) == {j \in 1..Len(updates) : Finished(updates[j])}

\* the poller of the run has taken the run's terminal update
Consumed(run) == run.poller = "stopped"

(* C2: when the tool exits with a non-zero code the run posts exactly one  *)
(* terminal update, which carries an error; it processes no item, so none  *)
(* is moved into the destination, and it does not remove the temporary     *)
(* directory: until a later run is launched the destination holds what it  *)
(* held at launch plus the temporary directory.                            *)
C2_NonZeroExitStopsRun ==
    \A i \in RunIndexes :
        LET run == runs[i]
            dir == fs[run.install_path]
        IN  (run.exited /\ run.returncode # 0) =>
                /\ run.pc = "ended"
                /\ Cardinality(Terminals(run.posted)) = 1
                /\ Finished(run.posted[Len(run.posted)])
                /\ "error" \in run.posted[Len(run.posted)].keys
                /\ run.moves = <<>>
                /\ run.mods_moved_count = 0
                /\ run.rmtree_calls = 0
                /\ run.number = launched =>
                      /\ TempName \in dir.entries
                      /\ dir.entries = run.entries_at_launch \cup {TempName}

\* a tool that wrote an item and then failed
C2_Witness ==
    \E i \in RunIndexes :
        /\ runs[i].exited /\ runs[i].returncode # 0
        /\ fs[runs[i].install_path].content # {}
        /\ runs[i].entries_at_launch # {}

\* run number n has been launched and its poller has not taken a terminal
\* update yet
Launched(n) ==
    \E i \in RunIndexes : runs[i].number = n /\ ~Consumed(runs[i])

\* the poller of run number n has taken a terminal update, has re-enabled
\* the controls and is no longer scheduled
Settled(n) ==
    \E i \in RunIndexes :
        /\ runs[i].number = n
        /\ Terminals(runs[i].applied) # {}
        /\ runs[i].poller = "stopped"
        /\ \A w \in Widgets : widgets[w] = NORMAL

(* C3: after a run is launched, whatever its outcome, its poller           *)
(* eventually takes a terminal update, re-enables the controls of the main *)
(* window and stops polling.                                               *)
C3_PollerEventuallySettles ==
    \A n \in 1..MaxRuns : Launched(n) ~> Settled(n)

\* the runs whose terminal update the poller has not taken yet
InFlight == {i \in RunIndexes : ~Consumed(runs[i])}

(* C4: at most one run is in flight at any time, and while a run is in     *)
(* flight (launched, terminal update not yet taken by its poller) the      *)
(* download, load and settings controls are disabled.                      *)
C4_OneRunInFlight ==
    /\ Cardinality(InFlight) <= 1
    /\ InFlight # {} => \A w \in Widgets : widgets[w] = DISABLED

\* the second run, its worker returned and its terminal update still queued
C4_Witness ==
    \E i \in RunIndexes :
        /\ runs[i].number = 2
        /\ runs[i].pc = "ended"
        /\ Terminals(runs[i].queue) # {}
        /\ widgets["download_button"] = DISABLED

\* every update posted so far has been applied once or is still queued, in
\* the order posted, and the window of the latest run shows the updates
\* applied, each overwriting the ones before
DeliveredInOrder ==
    \A i \in RunIndexes :
        /\ runs[i].posted = runs[i].applied \o runs[i].queue
        /\ (runs[i].number = launched /\ WindowExists) =>
              display = ApplyAll(InitialDisplay, runs[i].applied)

\* a step that applies updates of a run leaves the run's queue empty or
\* ends on a terminal update
PollDrains ==
    \A i \in RunIndexes :
        (/\ i <= Len(runs')
         /\ runs'[i].number = runs[i].number
         /\ runs'[i].applied # runs[i].applied) =>
            \/ runs'[i].queue = <<>>
            \/ Finished(runs'[i].applied[Len(runs'[i].applied)])

(* C5: every update the worker posts is taken from the queue exactly once  *)
(* and applied to the display in the order posted; each poll keeps taking  *)
(* updates until the queue is empty or a terminal update has been applied. *)
C5_FifoExactlyOnce == []DeliveredInOrder /\ [][PollDrains]_vars

\* a whole run of two items delivered: at least six updates applied
C5_Witness ==
    \E i \in RunIndexes :
        /\ Consumed(runs[i])
        /\ Len(runs[i].applied) >= 6
        /\ runs[i].queue = <<>>

\* the entries processed so far, by every run
AllMoves == UNION {{runs[i].moves[j] : j \in 1..Len(runs[i].moves)} : i \in RunIndexes}

WithId(m) == m.base \o <<"_">> \o m.id
WithIdAnd(m, k) == WithId(m) \o <<"_">> \o IntStr(k)
FreeCounters(m, limit) == {k \in 1..limit : WithIdAnd(m, k) \notin m.existing}
Smallest(ks) == CHOOSE k \in ks : \A j \in ks : k <= j

\* the name the entry gets when its sanitized name is taken, with counters
\* up to limit
ExpectedTarget(m, limit) ==
    IF WithId(m) \notin m.existing THEN WithId(m)
    ELSE WithIdAnd(m, Smallest(FreeCounters(m, limit)))

\* the name is taken, the item was downloaded and the move did not fail
CollidingMoves ==
    {m \in AllMoves : m.base \in m.existing /\ m.source_isdir
                      /\ m.result # "move_error"}

(* C6, as stated: when a directory already exists under the item's         *)
(* sanitized name the item is moved to <name>_<id>, and when that exists   *)
(* too, to <name>_<id>_<k> for the smallest counter k from 1 whose path is *)
(* free.                                                                   *)
C6_SmallestFreeCounter ==
    \A m \in CollidingMoves :
        /\ m.result = "moved"
        /\ WithId(m) \notin m.existing \/ FreeCounters(m, 2 * MaxCollision) # {}
        /\ m.target = ExpectedTarget(m, 2 * MaxCollision)

(* C6, amended: as stated for the counters 1 to 10; when <name>_<id> and   *)
(* <name>_<id>_1 to <name>_<id>_10 all exist the item is not moved.  An    *)
(* item that is moved is in the destination under its target name.         *)
C6_SmallestFreeCounterUpToLimit ==
    /\ \A m \in CollidingMoves :
          IF WithId(m) \notin m.existing \/ FreeCounters(m, MaxCollision) # {}
          THEN m.result = "moved" /\ m.target = ExpectedTarget(m, MaxCollision)
          ELSE m.result = "skipped"
    /\ \A i \in RunIndexes : \A j \in 1..Len(runs[i].moves) :
          runs[i].moves[j].result = "moved" =>
              runs[i].moves[j].target \in fs[runs[i].install_path].entries

\* an item moved under a counter greater than 1
C6_Witness ==
    \E m \in CollidingMoves :
        /\ m.result = "moved"
        /\ WithId(m) \in m.existing
        /\ WithIdAnd(m, 1) \in m.existing
        /\ m.target \notin {m.base, WithId(m), WithIdAnd(m, 1)}

----------------------------------------------------------------------------
(* Claims about the settings round trip                                    *)

\* load_settings has returned since the last save, and that save wrote
RoundTripped ==
    /\ component = "roundtrip"
    /\ raised # "not called"
    /\ settings_file = File("text", Dump(settings_dict))

----------------------------------------------------------------------------
(* Claims about one run of the orchestrator                                *)

\* the ids of the selection of a run, in selection order
SelectedIds(run) == [j \in 1..Len(run.selected_mods) |-> run.selected_mods[j].id]

\* the argument vector of the run, as the claim describes it
ArgvAsSpecified(run) ==
    LET cmd == run.steamcmd_command
        n == Len(run.selected_mods)
    IN  /\ Len(cmd) = 5 + 3 * n + 1
        /\ cmd[1] \in env.files \cup {base_cmd}
        /\ cmd[2] = "+login" /\ cmd[3] = "anonymous"
        /\ cmd[4] = "+force_install_dir"
        /\ cmd[5] = <<run.install_path, TempName>>
        /\ \A j \in 1..n :
              /\ cmd[5 + 3 * (j - 1) + 1] = "+workshop_download_item"
              /\ cmd[5 + 3 * (j - 1) + 2] = run.app_id
              /\ cmd[5 + 3 * (j - 1) + 3] = run.selected_mods[j].id
        /\ cmd[Len(cmd)] = "+quit"
        \* the app id is the configured one
        /\ ~Consumed(run) =>
              run.app_id = ToText(Get(app_settings, KeyAppId, StrV(DefaultAppId)))

(* C12: the tool is launched at most once per run, never before the       *)
(* command is built, and its argument vector is the executable, +login    *)
(* anonymous, +force_install_dir and the temporary directory, one         *)
(* +workshop_download_item <app_id> <mod_id> triple per selected entry in  *)
(* selection order with the configured app id, and +quit last.             *)
C12_SingleInvocation ==
    \A i \in RunIndexes :
        /\ runs[i].popen_calls <= 1
        /\ runs[i].pc \in {"start", "prepare"} => runs[i].popen_calls = 0
        /\ runs[i].popen_calls = 1 => ArgvAsSpecified(runs[i])

\* the tool launched for two entries with an app id other than the default
C12_Witness ==
    \E i \in RunIndexes :
        /\ runs[i].popen_calls = 1
        /\ Len(runs[i].selected_mods) = 2
        /\ runs[i].app_id = Id107410
        /\ runs[i].exited

----------------------------------------------------------------------------
\* the characters that line 59 names as invalid in a path, the whitespace
\* controls apart
ForbiddenChars == {"\\", "/", ":", "*", "?", "\"", "<", ">", "|"}

(* C13: the result of sanitize_filename contains none of \ / : * ? " < > |, *)
(* no tab or newline, no other control character, and neither starts nor   *)
(* ends with a space or a dot.                                             *)
C13_CleanResult ==
    sanitized # NotReturned =>
        /\ \A i \in 1..Len(sanitized) :
              sanitized[i] \notin ForbiddenChars \cup ControlChars
        /\ Len(sanitized) > 0 =>
              /\ sanitized[1] \notin StripChars
              /\ sanitized[Len(sanitized)] \notin StripChars

\* a name with a forbidden character, a control character and a trailing
\* space or dot has been sanitized
C13_Witness ==
    /\ sanitized # NotReturned
    /\ \E i \in 1..Len(name) : name[i] \in ForbiddenChars
    /\ \E i \in 1..Len(name) : name[i] \in ControlChars
    /\ Len(name) > 0 /\ name[Len(name)] \in StripChars

\* every character of n folds to dots, spaces and control characters that
\* line 60 removes: nothing of n is left after line 63
EmptiedBySteps(n) ==
    \A i \in 1..Len(n) :
        \A j \in 1..Len(AsciiFold(n[i])) :
            AsciiFold(n[i])[j] \in StripChars \cup (ControlChars \ InvalidPathChars)

(* C14: the result of sanitize_filename has between 1 and 100 characters,  *)
(* and an input that is empty, or of which the steps leave nothing, gives  *)
(* "Unnamed Mod".                                                          *)
C14_LengthAndPlaceholder ==
    sanitized # NotReturned =>
        /\ Len(sanitized) \in 1..max_len
        /\ EmptiedBySteps(name) => sanitized = UnnamedMod

\* a name longer than the limit has been cut to the limit
C14_Witness ==
    /\ sanitized # NotReturned
    /\ Len(name) > max_len
    /\ Len(sanitized) = max_len

\* a non-empty name of which nothing is left has been given the placeholder
C14_PlaceholderReached ==
    /\ sanitized = UnnamedMod
    /\ name # <<>>
    /\ EmptiedBySteps(name)

----------------------------------------------------------------------------
\* the worker of the run has stopped: it returned, or an exception ended it
Stopped(run) == run.pc \in {"ended", "crashed"}

(* C15: every run of download_mods_with_steamcmd, on every path, posts     *)
(* exactly one update carrying 'finished', and that update is the last     *)
(* message the run posts: no update follows a terminal one, and a run      *)
(* whose worker has stopped has posted one.                                *)
C15_OneTerminalUpdateLast ==
    \A i \in RunIndexes :
        LET run == runs[i]
        IN  /\ Terminals(run.posted) \subseteq {Len(run.posted)}
            /\ Stopped(run) => Cardinality(Terminals(run.posted)) = 1

\* the same, for the runs that no exception ended
C15_ReturnedRunsPostOneTerminal ==
    \A i \in RunIndexes :
        LET run == runs[i]
        IN  /\ Terminals(run.posted) \subseteq {Len(run.posted)}
            /\ run.pc = "ended" => Cardinality(Terminals(run.posted)) = 1

----------------------------------------------------------------------------
\* the last update of the run is the error update starting with this text
EndedWithError(run, text) ==
    /\ run.pc = "ended"
    /\ run.posted[Len(run.posted)] = ErrorUpdate(text)

\* the run has created the temporary directory
CreatedTemp(run) ==
    /\ TempName \in fs[run.install_path].entries
    /\ TempName \notin run.entries_at_launch

\* the places of the worker, in the order of the phases: validation,
\* resolution and preparation ("prepare"), the tool ("popen"), the moves
\* and the cleanup ("process"), the end
PhaseOrder(from, to) ==
    \/ from = to
    \/ from = "start" /\ to = "prepare"
    \/ from = "prepare" /\ to \in {"popen", "ended", "crashed"}
    \/ from = "popen" /\ to \in {"process", "ended"}
    \/ from = "process" /\ to = "ended"

PhasesInOrder ==
    \A i \in RunIndexes :
        LET run == runs[i]
            app_id == Get(app_settings, KeyAppId, StrV(DefaultAppId))
        IN  \* an App ID that is empty or not all digits: error, nothing created
            /\ (/\ run.pc \notin {"start", "prepare"}
                /\ run.selected_mods # <<>>
                /\ app_id.t = "str" /\ ~isdigit(app_id.v))
                  => /\ EndedWithError(run, "Invalid or missing App ID")
                     /\ ~CreatedTemp(run)
                     /\ run.popen_calls = 0
            /\ EndedWithError(run, "Invalid or missing App ID") =>
                  ~CreatedTemp(run) /\ run.popen_calls = 0
            \* the directory could not be created: the tool is not launched
            /\ EndedWithError(run, "Error creating temporary directory") =>
                  ~CreatedTemp(run) /\ run.popen_calls = 0
            \* the tool is launched only once the directory is there
            /\ run.popen_calls > 0 \/ run.pc = "popen" =>
                  TempName \in fs[run.install_path].entries \/ run.rmtree_calls > 0
            \* moving and cleaning up only after exit code 0
            /\ (run.pc = "process" \/ run.moves # <<>> \/ run.rmtree_calls > 0) =>
                  run.exited /\ run.returncode = 0
            \* the cleanup comes after the last item
            /\ run.rmtree_calls > 0 =>
                  Len(run.moves) = Len(run.selected_mods) /\ run.pc = "ended"

PhaseSteps ==
    \A i \in RunIndexes :
        i \in 1..Len(runs') /\ runs'[i].number = runs[i].number =>
            PhaseOrder(runs[i].pc, runs'[i].pc)

C16_FullRunReached ==
    \E i \in RunIndexes :
        /\ runs[i].pc = "ended" /\ runs[i].rmtree_calls = 1
        /\ runs[i].mods_moved_count > 0

----------------------------------------------------------------------------
\* the entries on which the collision loop gave up (the break of line 607)
GivenUpMoves == {m \in AllMoves : m.gave_up}

(* C17: when collision handling gives up on an item because no free target *)
(* name was found within the bounded number of attempts, the item is not   *)
(* moved and it is counted as failed exactly once.                         *)
C17_GiveUpSkipsAndCountsOnce ==
    \A m \in GivenUpMoves :
        /\ m.result # "moved"
        /\ m.moved = 0
        /\ m.failed = 1

\* the loop gave up on a name that was in fact free, and the item was moved
C17_GaveUpYetMoved ==
    \E m \in GivenUpMoves : m.result = "moved" /\ m.target \notin m.existing

\* the loop gave up on a name that was in fact free, and the item was
\* counted as failed twice
C17_GaveUpCountedTwice ==
    \E m \in GivenUpMoves : m.failed = 2

----------------------------------------------------------------------------
\* the runs whose tool exited with code 0 and that have posted their
\* terminal update
CompletedRuns ==
    {i \in RunIndexes : /\ runs[i].exited /\ runs[i].returncode = 0
                        /\ runs[i].pc = "ended"}

\* the terminal update of a run
TerminalUpdate(run) == run.posted[Len(run.posted)]

\* the counts that the terminal update of lines 641-648 reports
ReportedMoved(run) == TerminalUpdate(run).status[2]
ReportedFailed(run) == TerminalUpdate(run).status[3]

\* the entries of the run that shutil.move has put in the destination
ActuallyMoved(run) == {j \in 1..Len(run.moves) : run.moves[j].result = "moved"}

(* C18: in the terminal update of a run whose tool exited 0, the moved     *)
(* count plus the failed/skipped count equals the number of selected       *)
(* entries, and the moved count equals the number of directories actually  *)
(* moved into the destination.                                             *)
C18_CountsAddUp ==
    \A i \in CompletedRuns :
        LET run == runs[i]
        IN  /\ Finished(TerminalUpdate(run))
            /\ ReportedMoved(run) + ReportedFailed(run) = Len(run.selected_mods)
            /\ ReportedMoved(run) = Cardinality(ActuallyMoved(run))

\* the part of C18 that holds on every run: the moved count is the number
\* of directories moved, and no entry is left out of both counts
C18_MovedCountIsExact ==
    \A i \in CompletedRuns :
        LET run == runs[i]
        IN  /\ ReportedMoved(run) = Cardinality(ActuallyMoved(run))
            /\ ReportedMoved(run) + ReportedFailed(run) >= Len(run.selected_mods)

----------------------------------------------------------------------------
\* the updates of the run that name an item
ItemUpdates(run) == SelectSeq(run.posted, LAMBDA u : "current_mod" \in u.keys)

\* the j-th item update names the j-th selected entry and its position j of
\* the total
NamesEntry(u, run, j) ==
    /\ u.status = <<"Processing", j, Len(run.selected_mods)>>
    /\ u.current_mod = <<run.selected_mods[j].name, run.selected_mods[j].id>>

\* the entries processed so far are the first selected entries, in order,
\* once each, and each has its update
InSelectionOrder(run) ==
    /\ Len(run.moves) = run.i
    /\ Len(run.moves) <= Len(run.selected_mods)
    /\ Len(ItemUpdates(run)) = Len(run.moves)
    /\ \A j \in 1..Len(run.moves) :
          /\ run.moves[j].id = run.selected_mods[j].id
          /\ NamesEntry(ItemUpdates(run)[j], run, j)

ProcessingInOrder ==
    \A i \in RunIndexes :
        LET run == runs[i]
        IN  /\ InSelectionOrder(run)
            /\ i \in CompletedRuns => Len(run.moves) = Len(run.selected_mods)
            /\ \A j \in 1..Len(run.moves) :
                  run.moves[j].result \in {"missing", "move_error"} =>
                      run.moves[j].failed >= 1 /\ run.moves[j].moved = 0

\* a turn of the loop posts the update of the entry, then handles the entry
ProcessingSteps ==
    \A i \in RunIndexes :
        (i \in 1..Len(runs') /\ runs'[i].number = runs[i].number
           /\ runs'[i].moves # runs[i].moves) =>
            /\ Len(runs'[i].moves) = Len(runs[i].moves) + 1
            /\ Len(runs'[i].posted) = Len(runs[i].posted) + 1
            /\ "current_mod" \in runs'[i].posted[Len(runs'[i].posted)].keys

(* C19: when the tool exits 0, every selected entry is processed exactly   *)
(* once, in the order of the selection, each preceded by a progress update *)
(* naming it and its position; an entry whose source directory is missing  *)
(* or whose move fails is counted as failed and the later entries are      *)
(* processed all the same.                                                 *)
C19_EveryEntryInOrder == []ProcessingInOrder /\ [][ProcessingSteps]_vars

\* a run of two entries has completed: the first was missing or could not
\* be moved, the second was moved
C19_Witness ==
    \E i \in CompletedRuns :
        /\ Len(runs[i].moves) = 2
        /\ runs[i].moves[1].result \in {"missing", "move_error"}
        /\ runs[i].moves[2].result = "moved"

----------------------------------------------------------------------------
\* the entries of the run that are not in the destination: skipped after
\* the give-up, source missing, or move failed
NotMoved(run) == {j \in 1..Len(run.moves) : run.moves[j].result # "moved"}

(* C20: the terminal update of a run whose tool exited 0 carries no error, *)
(* and its warning flag is set if and only if at least one selected entry  *)
(* failed to be moved into the destination (source missing, move error or  *)
(* collision give-up).                                                     *)
C20_WarningIffSomeEntryFailed ==
    \A i \in CompletedRuns :
        LET run == runs[i]
            u == TerminalUpdate(run)
        IN  /\ Finished(u)
            /\ "error" \notin u.keys
            /\ "show_warning" \in u.keys
            /\ u.show_warning <=> NotMoved(run) # {}

\* the part of C20 that holds on every run: no error, and the flag is set
\* whenever an entry is not in the destination
C20_FailureAlwaysWarns ==
    \A i \in CompletedRuns :
        LET run == runs[i]
            u == TerminalUpdate(run)
        IN  /\ Finished(u)
            /\ "error" \notin u.keys
            /\ NotMoved(run) # {} => u.show_warning

----------------------------------------------------------------------------
\* nothing was at the target of any entry that was moved, and the entries
\* that a run moved are at different paths
MovedToFreePaths ==
    /\ \A m \in AllMoves : m.result = "moved" => m.target \notin m.existing
    /\ \A i \in RunIndexes :
          \A j, k \in ActuallyMoved(runs[i]) :
              j # k => runs[i].moves[j].target # runs[i].moves[k].target

\* a turn of the loop takes nothing away from the destination: what was
\* there stays, and at most the target of the entry is added
DestinationOnlyGrows ==
    \A i \in RunIndexes :
        (i \in 1..Len(runs') /\ runs'[i].number = runs[i].number
           /\ runs'[i].moves # runs[i].moves) =>
            LET d == runs[i].install_path
                m == runs'[i].moves[Len(runs'[i].moves)]
            IN  /\ fs[d].entries \subseteq fs'[d].entries
                /\ fs'[d].entries \ fs[d].entries \subseteq {m.target}
                /\ fs'[d].entries # fs[d].entries => m.result = "moved"

(* C21: a directory is moved only to a target path at which nothing exists *)
(* at the time of the move: no run overwrites or replaces an item of the   *)
(* destination or moves an item inside a directory that is already there,  *)
(* and two selected entries with the same sanitized name end up at two     *)
(* different paths.                                                        *)
C21_MovesOnlyToFreePaths == []MovedToFreePaths /\ [][DestinationOnlyGrows]_vars

\* two entries with the same sanitized name have both been moved
C21_Witness ==
    \E i \in RunIndexes :
        \E j, k \in ActuallyMoved(runs[i]) :
            /\ j # k
            /\ runs[i].moves[j].base = runs[i].moves[k].base

----------------------------------------------------------------------------
(* C22: across any sequence of runs against the same destination, a run    *)
(* that follows a failed run included, an entry is counted as moved by a   *)
(* run only if the tool produced the entry's directory during that same    *)
(* run: content left under the temporary directory by an earlier run is    *)
(* never moved into the destination.                                       *)
C22_OnlyFreshContentMoved ==
    \A i \in RunIndexes :
        \A j \in ActuallyMoved(runs[i]) :
            runs[i].moves[j].id \in runs[i].produced

\* a run has moved an entry that its own tool did produce, although the
\* temporary directory was there before the run
C22_FreshMoveReached ==
    \E i \in RunIndexes :
        /\ TempName \in runs[i].entries_at_launch
        /\ \E j \in ActuallyMoved(runs[i]) : runs[i].moves[j].id \in runs[i].produced

----------------------------------------------------------------------------
\* a completed run has called rmtree once and its terminal update is the
\* one of lines 641-648 with the counts of the loop; no other run has
\* called it
CleanupOnce ==
    \A i \in RunIndexes :
        LET run == runs[i]
        IN  /\ i \in CompletedRuns =>
                  /\ run.rmtree_calls = 1
                  /\ Len(run.moves) = Len(run.selected_mods)
                  /\ TerminalUpdate(run) =
                        FinalUpdate(run.mods_moved_count, run.mods_failed_count,
                                    Len(run.selected_mods))
                  /\ "error" \notin TerminalUpdate(run).keys
                  /\ TerminalUpdate(run).show_warning = (run.mods_failed_count > 0)
            /\ i \notin CompletedRuns => run.rmtree_calls = 0

\* the step that calls rmtree comes after the last entry, posts the
\* terminal update and changes no count
CleanupStep ==
    \A i \in RunIndexes :
        (i \in 1..Len(runs') /\ runs'[i].number = runs[i].number
           /\ runs'[i].rmtree_calls # runs[i].rmtree_calls) =>
            /\ runs[i].rmtree_calls = 0 /\ runs'[i].rmtree_calls = 1
            /\ runs[i].i = Len(runs[i].selected_mods)
            /\ Terminals(runs[i].posted) = {}
            /\ runs'[i].moves = runs[i].moves
            /\ runs'[i].mods_moved_count = runs[i].mods_moved_count
            /\ runs'[i].mods_failed_count = runs[i].mods_failed_count

(* C23: after the tool exits 0 the removal of the temporary directory is   *)
(* attempted exactly once, after all entries have been processed and       *)
(* before the terminal update is posted; a failure of the removal changes  *)
(* neither the error field, nor the warning flag, nor the counts of the    *)
(* terminal update.                                                        *)
C23_CleanupOnceAndSilent == []CleanupOnce /\ [][CleanupStep]_vars

\* a run has completed and its temporary directory is still there: the
\* removal failed
C23_Witness ==
    \E i \in CompletedRuns :
        /\ TempName \in fs[runs[i].install_path].entries
        /\ runs[i].rmtree_calls = 1
        /\ runs[i].mods_moved_count > 0

----------------------------------------------------------------------------
\* the value is a non-empty text of digits
ValidAppId(value) == value.t = "str" /\ isdigit(value.v)

\* the app_id of a settings mapping, null when the key is absent
AppIdOf(d) == Get(d, KeyAppId, [t |-> "null", v |-> <<>>])

\* the settings file holds an object whose app_id is absent or is no
\* non-empty text of digits
FileAppIdAbsentOrInvalid ==
    /\ settings_file.kind = "text"
    /\ settings_file.json.t = "object"
    /\ ~ValidAppId(AppIdOf(settings_file.json.obj))

(* C24: after any sequence of load and edit-and-save operations the app    *)
(* identifier held in app_settings is non-empty and all digits; an absent  *)
(* or invalid app identifier in the settings file is replaced by the fixed *)
(* default when the file is loaded.                                        *)
C24_AppIdAlwaysValid ==
    (component = "settings" /\ raised = "none") =>
        /\ ValidAppId(AppIdOf(app_settings))
        /\ FileAppIdAbsentOrInvalid => AppIdOf(app_settings) = StrV(DefaultAppId)

\* the part of C24 that holds: an absent app identifier is replaced by the
\* default, and one that is there is taken as it is
C24_LoadKeepsFileValue ==
    (component = "settings" /\ raised = "none"
       /\ settings_file.kind = "text" /\ settings_file.json.t = "object") =>
        AppIdOf(app_settings) =
            Get(settings_file.json.obj, KeyAppId, StrV(DefaultAppId))

\* the part of C24 that holds: an edit that is accepted leaves a valid app
\* identifier in app_settings
C24_SaveLeavesValidAppId ==
    [][app_settings' # app_settings => ValidAppId(AppIdOf(app_settings'))]_vars

----------------------------------------------------------------------------
(* Claims about the scraper's passes                                       *)

\* the containers of the page that the primary pass turns into an entry
ValidContainers ==
    LET cs == FindContainers(source.page)
    IN  {j \in 1..Len(cs) : cs[j].hasLink /\ cs[j].id # <<>>}

\* the links of the page that the fallback pass would turn into an entry
UsableLinks ==
    {j \in 1..Len(source.page.links) :
        /\ source.page.links[j].absolute
        /\ source.page.links[j].id # <<>>
        /\ ~(/\ source_type = "url"
             /\ UrlHasId(source.url, source.page.links[j].id)
             /\ source.page.links[j].inCollectionInfo)}

(* C25: the whole-document link scan runs only when the container search   *)
(* found no container: when containers were found, every entry of the      *)
(* result comes from a container, and when none of them yielded a valid    *)
(* entry the result is empty whatever links the page holds.                *)
C25_FallbackOnlyWithoutContainers ==
    (ScrapeSucceeded /\ FindContainers(source.page) # <<>>) =>
        /\ \A i \in 1..Len(scraped.ret) :
              \E j \in ValidContainers :
                  FindContainers(source.page)[j].id = scraped.ret[i].id
        /\ ValidContainers = {} => scraped.ret = <<>>

\* a page with a container that yields nothing and a link the fallback
\* would have taken has been scraped
C25_Witness ==
    /\ ScrapeSucceeded
    /\ FindContainers(source.page) # <<>>
    /\ ValidContainers = {}
    /\ UsableLinks # {}
    /\ scraped.ret = <<>>

\* the fallback pass has run on a page without containers
C25_FallbackReached ==
    /\ ScrapeSucceeded
    /\ FindContainers(source.page) = <<>>
    /\ scraped.ret # <<>>

----------------------------------------------------------------------------
\* the name the fallback pass reads for a link (line 363)
LinkName(link) ==
    IF link.nextTitle # NoTitle THEN strip(link.nextTitle, Whitespace)
    ELSE Placeholder(link.id)

\* the names the page offers for mod_id, in document order: those of its
\* containers, or of its links when there is no container
OfferedNames(mod_id) ==
    LET cs == FindContainers(source.page)
        ls == source.page.links
        fromContainers ==
            SelectSeq([j \in 1..Len(cs) |-> [at |-> j, name |-> ContainerName(cs[j])]],
                      LAMBDA o : o.at \in ValidContainers /\ cs[o.at].id = mod_id)
        fromLinks ==
            SelectSeq([j \in 1..Len(ls) |-> [at |-> j, name |-> LinkName(ls[j])]],
                      LAMBDA o : o.at \in UsableLinks /\ ls[o.at].id = mod_id)
        offered == IF cs # <<>> THEN fromContainers ELSE fromLinks
    IN  [k \in 1..Len(offered) |-> offered[k].name]

\* a name that is text and is not the placeholder made up for mod_id
RealName(mod_name, mod_id) == mod_name # <<>> /\ mod_name # Placeholder(mod_id)

\* the first real name among names
FirstReal(names, mod_id) ==
    names[CHOOSE k \in 1..Len(names) :
             /\ RealName(names[k], mod_id)
             /\ \A j \in 1..(k - 1) : ~RealName(names[j], mod_id)]

(* C26: when an identifier recurs during a scrape, the name already stored *)
(* for it is kept unless the stored name is a placeholder and the new one  *)
(* is not: a real name is never replaced, neither by a placeholder nor by  *)
(* a later, different real name, so the entry of an identifier for which   *)
(* the page offers a real name carries the first real name offered.        *)
C26_FirstRealNameKept ==
    ScrapeSucceeded =>
        \A i \in 1..Len(scraped.ret) :
            LET mod_id == scraped.ret[i].id
                names == OfferedNames(mod_id)
            IN  (\E k \in 1..Len(names) : RealName(names[k], mod_id)) =>
                    scraped.ret[i].name = FirstReal(names, mod_id)

\* the same for the pages on which no offered name begins with the words
\* of the placeholder
C26_HoldsWithoutPrefixedTitles ==
    ScrapeSucceeded =>
        \A i \in 1..Len(scraped.ret) :
            LET mod_id == scraped.ret[i].id
                names == OfferedNames(mod_id)
            IN  (/\ \E k \in 1..Len(names) : RealName(names[k], mod_id)
                 /\ \A k \in 1..Len(names) :
                       RealName(names[k], mod_id) =>
                           ~startswith(names[k], placeholder_prefix)) =>
                    scraped.ret[i].name = FirstReal(names, mod_id)

----------------------------------------------------------------------------
\* the App ID in a settings mapping, as line 435 reads it
ConfiguredAppId(d) == Get(d, KeyAppId, StrV(DefaultAppId))

\* the list of mods as it is ticked now
TickedNow ==
    LET ticked == SelectSeq(mod_vars, LAMBDA m : m.var)
    IN  [i \in 1..Len(ticked) |-> [id |-> ticked[i].id, name |-> ticked[i].name]]

\* what a run works with is what was there when it was spawned: the
\* command carries the App ID configured then and the entries selected
\* then, and the entries handled are those
InputsAsAtSpawn ==
    \A i \in RunIndexes :
        LET run == runs[i]
        IN  /\ run.steamcmd_command # <<>> =>
                  /\ run.app_id = ConfiguredAppId(run.settings_at_launch).v
                  /\ \A j \in 1..Len(run.selected_mods) :
                        /\ run.steamcmd_command[5 + 3 * (j - 1) + 2] =
                              ConfiguredAppId(run.settings_at_launch).v
                        /\ run.steamcmd_command[5 + 3 * (j - 1) + 3] =
                              run.selected_mods[j].id
                  /\ run.steamcmd_command[5] = <<run.install_path, TempName>>
            /\ \A j \in 1..Len(run.moves) :
                  run.moves[j].id = run.selected_mods[j].id

\* no step changes the entries or the destination of a run, and the worker
\* reads the settings only while they are what they were at the spawn
InputsNeverChange ==
    \A i \in RunIndexes :
        (i \in 1..Len(runs') /\ runs'[i].number = runs[i].number) =>
            /\ runs'[i].selected_mods = runs[i].selected_mods
            /\ runs'[i].install_path = runs[i].install_path
            /\ runs[i].pc = "prepare" /\ runs'[i].pc # "prepare" =>
                  app_settings = runs[i].settings_at_launch

----------------------------------------------------------------------------
\* the configured tool path, as line 434 reads it
ConfiguredPath == Get(app_settings, KeySteamcmdPath, StrV(<<>>))

\* the conventional locations at which something exists
ExistingLocations == {j \in 1..Len(possible_paths) : possible_paths[j] \in env.files}

\* the executable the claim describes
ExecutableAsSpecified(executable) ==
    IF ConfiguredPath.v # <<>> /\ ConfiguredPath.v \in env.files
    THEN executable = ConfiguredPath.v
    ELSE IF ExistingLocations # {}
    THEN \E j \in ExistingLocations :
            /\ executable = possible_paths[j]
            /\ \A k \in ExistingLocations : j <= k
    ELSE executable = base_cmd

(* C28: tool resolution always yields an executable and never ends the     *)
(* run: the configured path is used if and only if it exists and is a      *)
(* regular file; otherwise the first existing location of the platform's   *)
(* ordered list of conventional install locations; if none exists, the     *)
(* bare command name steamcmd.                                             *)
C28_ToolResolution ==
    \A i \in RunIndexes :
        LET run == runs[i]
        IN  \* a run past validation has its command, unless the directory
            \* could not be made
            /\ (/\ run.pc \notin {"start", "prepare"}
                /\ run.selected_mods # <<>>
                /\ ValidAppId(ConfiguredAppId(run.settings_at_launch))
                /\ ~EndedWithError(run, "Error creating temporary directory"))
                  => run.steamcmd_command # <<>>
            /\ (run.steamcmd_command # <<>> /\ app_settings = run.settings_at_launch)
                  => ExecutableAsSpecified(run.steamcmd_command[1])

\* the configured path does not exist and the tool was found at the first
\* conventional location that does
C28_Witness ==
    \E i \in RunIndexes :
        /\ runs[i].steamcmd_command # <<>>
        /\ ConfiguredPath.v # <<>>
        /\ ConfiguredPath.v \notin env.files
        /\ runs[i].steamcmd_command[1] = possible_paths[3]

\* the configured path is a file and is used although the tool is also at
\* a conventional location
C28_ConfiguredPathUsed ==
    \E i \in RunIndexes :
        /\ runs[i].steamcmd_command # <<>>
        /\ ExistingLocations # {}
        /\ runs[i].steamcmd_command[1] = ConfiguredPath.v

----------------------------------------------------------------------------
(* C29: sanitize_filename is idempotent: sanitizing its result gives the   *)
(* result again.                                                           *)
C29_Idempotent ==
    sanitized # NotReturned => sanitize_filename(sanitized) = sanitized

\* the same for the results that are no reserved device name
C29_IdempotentUnlessReserved ==
    (sanitized # NotReturned /\ upper(sanitized) \notin reserved_names) =>
        sanitize_filename(sanitized) = sanitized

----------------------------------------------------------------------------
\* a step of the application writes the settings file with the settings
\* it leaves in memory, or leaves both as they were
SavedOrUntouched ==
    component = "app" =>
        \/ settings_file' = File("text", Dump(app_settings'))
        \/ app_settings' = app_settings /\ settings_file' = settings_file

(* C30: an edit-and-save changes app_settings only when the settings file  *)
(* is written successfully: an edit rejected because the App ID is not all *)
(* digits and an edit whose file write fails both leave app_settings and   *)
(* the settings file as they were before.                                  *)
C30_MemoryChangesOnlyWithFile == [][SavedOrUntouched]_vars

\* the part of C30 that holds: a file that changes holds the settings in
\* memory, and the App ID left in memory is all digits
C30_WrittenFileMatchesMemory ==
    [][component = "app" =>
          /\ settings_file' # settings_file =>
                settings_file' = File("text", Dump(app_settings'))
          /\ app_settings' # app_settings =>
                ValidAppId(AppIdOf(app_settings'))]_vars

============================================================================
